---- MODULE Spec2Model ----
(***************************************************************************)
(* Model of the "This Day" page generator (app.py and its earlier          *)
(* this_day_page.py variant): the seeded content selection, the keyword    *)
(* filter, the tone heuristics, the birthday matcher, the famous-birthday  *)
(* picker, the summary composer, the selections of a page build, the      *)
(* authenticated web route, the cache of the Wikimedia fetcher and the     *)
(* command-line edits of birthdays.json.                                   *)
(*                                                                         *)
(* Python strings are sequences of one-character strings.  JSON values     *)
(* read from the Wikimedia payload or from birthdays.json are records      *)
(* [kind, n, s]: kind "str" carries s, kinds "int" and "float" carry n     *)
(* (a float carries its value in tenths), "null" is None and "missing"     *)
(* marks a key the dict does not have.                                     *)
(***************************************************************************)
EXTENDS Integers, Sequences, FiniteSets, TLC

VARIABLES
    pc,           \* "idle" before the call, then how it ended: "returned", "raised"
    args,         \* the arguments of the call
    ret,          \* the value returned
    first,        \* the earlier call a later one is compared with
    ncalls,       \* calls made so far
    globalDraws,  \* draws taken from the module-level random generator
    log,          \* what the call handed on, in order: the texts given to the classifier,
                  \* the sentences given to the join, the seeds given to random.Random,
                  \* the files read and the network requests made
    store         \* the files on disk: the records of birthdays.json, or the cache
                  \* directory as a function from cache key to file

vars == <<pc, args, ret, first, ncalls, globalDraws, log, store>>

(***************************************************************************)
(* Bounds of the explored inputs.                                          *)
(***************************************************************************)
MaxItems == 3
MaxN == 2
MaxSeed == 1
MaxCalls == 2
MaxGlobalDraws == 1
MaxTextLen == 3
MaxKeywords == 2
MaxRecords == 3

(***************************************************************************)
(* Characters and strings.                                                 *)
(***************************************************************************)
\* The characters used, in code point order: str comparison is by code point.
CodeOrder ==
    << " ","!",",","-",".","0","1","2","3","4","5","6","7","8","9",":","?","A","B","C","D","E","F","G","H","I","J","K","L","M","N","O","P","Q","R","S","T","U","V","W","X","Y","Z","a","b","c","d","e","f","g","h","i","j","k","l","m","n","o","p","q","r","s","t","u","v","w","x","y","z","|" >>

UpperChars ==
    << "A","B","C","D","E","F","G","H","I","J","K","L","M","N","O","P","Q","R","S","T","U","V","W","X","Y","Z" >>

LowerChars ==
    << "a","b","c","d","e","f","g","h","i","j","k","l","m","n","o","p","q","r","s","t","u","v","w","x","y","z" >>

ord == [c \in {CodeOrder[i] : i \in 1..Len(CodeOrder)} |-> CHOOSE i \in 1..Len(CodeOrder) : CodeOrder[i] = c]

lower_char == [c \in DOMAIN ord |->
    IF \E i \in 1..Len(UpperChars) : UpperChars[i] = c
    THEN LowerChars[CHOOSE i \in 1..Len(UpperChars) : UpperChars[i] = c]
    ELSE c]

\* str.lower()
RECURSIVE lower(_)
lower(s) == IF s = <<>> THEN <<>> ELSE <<lower_char[Head(s)]>> \o lower(Tail(s))

Whitespace == {" "}

RECURSIVE lstrip(_)
lstrip(s) ==
    IF s # <<>> /\ Head(s) \in Whitespace THEN lstrip(Tail(s)) ELSE s

RECURSIVE rstrip(_)
rstrip(s) ==
    IF s # <<>> /\ s[Len(s)] \in Whitespace
    THEN rstrip(SubSeq(s, 1, Len(s) - 1)) ELSE s

\* str.strip()
strip(s) == rstrip(lstrip(s))

\* the substring test  h in t
Contains(t, h) ==
    \E i \in 0..(Len(t) - Len(h)) : SubSeq(t, i + 1, i + Len(h)) = h

\* str < str: lexicographic by code point, a proper prefix is smaller
RECURSIVE str_lt(_, _)
str_lt(a, b) ==
    IF b = <<>> THEN FALSE
    ELSE IF a = <<>> THEN TRUE
    ELSE IF Head(a) = Head(b) THEN str_lt(Tail(a), Tail(b))
    ELSE ord[Head(a)] < ord[Head(b)]

(***************************************************************************)
(* JSON values and dict access.                                            *)
(***************************************************************************)
JStr(s) == [kind |-> "str", n |-> 0, s |-> s]
JInt(n) == [kind |-> "int", n |-> n, s |-> <<>>]
JFloat(tenths) == [kind |-> "float", n |-> tenths, s |-> <<>>]
JNull == [kind |-> "null", n |-> 0, s |-> <<>>]
JMissing == [kind |-> "missing", n |-> 0, s |-> <<>>]

\* dict.get(key, default)
get(v, default) == IF v.kind = "missing" THEN default ELSE v

Digits == <<"0","1","2","3","4","5","6","7","8","9">>

RECURSIVE decimal(_)
decimal(n) ==
    IF n < 10 THEN <<Digits[n + 1]>>
    ELSE decimal(n \div 10) \o <<Digits[(n % 10) + 1]>>

\* str(x) of a str, an int or None
py_str(v) ==
    CASE v.kind = "str" -> v.s
      [] v.kind = "int" -> IF v.n < 0 THEN <<"-">> \o decimal(-v.n) ELSE decimal(v.n)
      [] v.kind = "null" -> <<"N","o","n","e">>

Item(year, text) == [year |-> year, text |-> text]

extract_year_text(item) ==
    [year |-> strip(py_str(get(item.year, JStr(<<>>)))),
     text |-> strip(py_str(get(item.text, JStr(<<>>))))]

(***************************************************************************)
(* random.Random: the generator is abstracted to a full-period             *)
(* congruential generator on 16 states.  Each Random(seed) is a fresh      *)
(* generator whose state depends on the seed alone; globalDraws counts the *)
(* draws taken from the module-level generator behind random.choice.       *)
(***************************************************************************)
rng_next(s) == (5 * s + 3) % 16

\* state of the module-level generator after globalDraws draws
RECURSIVE rng_after(_, _)
rng_after(s, k) == IF k = 0 THEN s ELSE rng_after(rng_next(s), k - 1)

global_rng == rng_after(0, globalDraws)

\* variant: the call draws from the module-level generator instead of its own
Random_shared(seed) == global_rng

\* an int seed is taken by its absolute value
Random(seed) == (7 * (IF seed < 0 THEN -seed ELSE seed) + 1) % 16

randbelow(s, n) == s % n

\* rng.choice(seq), seq non-empty
choice(s, seq) == seq[randbelow(s, Len(seq)) + 1]

\* variant: the drawn element stays in the pool (a draw with replacement)
RECURSIVE sample_loop_keep(_, _, _, _, _)
sample_loop_keep(s, pool, m, k, acc) ==
    IF Len(acc) = k THEN acc
    ELSE LET j == randbelow(s, m) + 1
         IN  sample_loop_keep(rng_next(s), pool, m, k, Append(acc, pool[j]))

\* rng.sample's selection loop on a pool (populations of at most 21 elements)
RECURSIVE sample_loop(_, _, _, _, _)
sample_loop(s, pool, m, k, acc) ==
    IF Len(acc) = k THEN acc
    ELSE LET j == randbelow(s, m) + 1
         IN  sample_loop(rng_next(s), [pool EXCEPT ![j] = pool[m]], m - 1, k,
                         Append(acc, pool[j]))

\* rng.sample(population, k): ValueError when k is negative or exceeds the population
sample(s, population, k) ==
    IF k < 0 \/ k > Len(population)
    THEN [exc |-> TRUE, val |-> <<>>]
    ELSE [exc |-> FALSE, val |-> sample_loop(s, population, Len(population), k, <<>>)]

\* variant: the unchanged-list branch taken for len(items) < n only
pick_items_strict(items, n, seed) ==
    IF items = <<>> THEN [exc |-> FALSE, val |-> <<>>]
    ELSE LET rng == Random(seed)
         IN  IF Len(items) < n THEN [exc |-> FALSE, val |-> items]
             ELSE sample(rng, items, n)

pick_items(items, n, seed) ==
    IF items = <<>> THEN [exc |-> FALSE, val |-> <<>>]
    ELSE LET rng == Random(seed)
         IN  IF Len(items) <= n THEN [exc |-> FALSE, val |-> items]
             ELSE sample(rng, items, n)

(***************************************************************************)
(* Keyword filter.                                                         *)
(***************************************************************************)
\* variant: the keyword is not lowercased
keyword_in_cased(k, t) == Contains(t, k)

\* k.lower() in t
keyword_in(k, t) == Contains(t, lower(k))

RECURSIVE filter_loop(_, _, _)
filter_loop(items, keywords, out) ==
    IF items = <<>> THEN out
    ELSE LET it == Head(items)
             t == lower(extract_year_text(it).text)
         IN  IF \E i \in 1..Len(keywords) : keyword_in(keywords[i], t)
             THEN filter_loop(Tail(items), keywords, Append(out, it))
             ELSE filter_loop(Tail(items), keywords, out)

filter_keywords(items, keywords) == filter_loop(items, keywords, <<>>)

(***************************************************************************)
(* Tone heuristics.                                                        *)
(***************************************************************************)
NEGATIVE_HINTS ==
    << <<"w","a","r">>,
       <<"b","a","t","t","l","e">>,
       <<"i","n","v","a","s","i","o","n">>,
       <<"m","a","s","s","a","c","r","e">>,
       <<"t","e","r","r","o","r">>,
       <<"t","e","r","r","o","r","i","s","t">>,
       <<"a","t","t","a","c","k">>,
       <<"b","o","m","b">>,
       <<"a","s","s","a","s","s","i","n","a","t","i","o","n">>,
       <<"a","s","s","a","s","s","i","n","a","t","e","d">>,
       <<"m","u","r","d","e","r">>,
       <<"k","i","l","l","e","d">>,
       <<"d","e","a","t","h">>,
       <<"d","i","e","d">>,
       <<"d","e","a","d","l","y">>,
       <<"e","x","e","c","u","t","i","o","n">>,
       <<"g","e","n","o","c","i","d","e">>,
       <<"r","i","o","t">>,
       <<"s","h","o","o","t","i","n","g">>,
       <<"e","a","r","t","h","q","u","a","k","e">>,
       <<"t","s","u","n","a","m","i">>,
       <<"h","u","r","r","i","c","a","n","e">>,
       <<"t","o","r","n","a","d","o">>,
       <<"f","l","o","o","d">>,
       <<"w","i","l","d","f","i","r","e">>,
       <<"f","i","r","e">>,
       <<"e","x","p","l","o","s","i","o","n">>,
       <<"c","r","a","s","h">>,
       <<"d","e","r","a","i","l">>,
       <<"d","i","s","a","s","t","e","r">>,
       <<"c","a","t","a","s","t","r","o","p","h","e">>,
       <<"o","u","t","b","r","e","a","k">>,
       <<"e","p","i","d","e","m","i","c">>,
       <<"p","l","a","g","u","e">>,
       <<"p","a","n","d","e","m","i","c">>,
       <<"c","h","o","l","e","r","a">>,
       <<"a","r","r","e","s","t">>,
       <<"c","o","n","v","i","c","t","e","d">>,
       <<"s","e","n","t","e","n","c","e","d">> >>

POSITIVE_HINTS ==
    << <<"w","o","n">>,
       <<"w","i","n","s">>,
       <<"v","i","c","t","o","r","y">>,
       <<"c","h","a","m","p","i","o","n">>,
       <<"c","h","a","m","p","i","o","n","s","h","i","p">>,
       <<"t","i","t","l","e">>,
       <<"f","o","u","n","d","e","d">>,
       <<"o","p","e","n","s">>,
       <<"o","p","e","n","e","d">>,
       <<"l","a","u","n","c","h">>,
       <<"l","a","u","n","c","h","e","d">>,
       <<"r","e","l","e","a","s","e","d">>,
       <<"d","e","b","u","t">>,
       <<"p","r","e","m","i","e","r","e">>,
       <<"f","i","r","s","t">>,
       <<"r","e","c","o","r","d">>,
       <<"b","r","e","a","k","t","h","r","o","u","g","h">>,
       <<"d","i","s","c","o","v","e","r","e","d">>,
       <<"i","n","v","e","n","t","e","d">>,
       <<"c","r","e","a","t","e","d">>,
       <<"c","e","l","e","b","r","a","t","i","o","n">>,
       <<"f","e","s","t","i","v","a","l">>,
       <<"c","o","n","c","e","r","t">> >>

\* any(h in t for h in hints)
any_hint_in(hints, t) == \E i \in 1..Len(hints) : Contains(t, hints[i])

\* variant: the text is not lowercased before the hints are looked up
is_positiveish_text_cased(text) ==
    IF any_hint_in(NEGATIVE_HINTS, text) THEN FALSE ELSE TRUE

is_positiveish_text(text) ==
    LET t == lower(text)
    IN  IF any_hint_in(NEGATIVE_HINTS, t) THEN FALSE ELSE TRUE

\* variant: the classifier is called before the text is tested
RECURSIVE classifier_calls_unguarded(_)
classifier_calls_unguarded(items) ==
    IF items = <<>> THEN <<>>
    ELSE <<extract_year_text(Head(items)).text>> \o classifier_calls_unguarded(Tail(items))

\* the texts the loop hands to is_positiveish_text, item by item: the test
\* "if not txt: continue" comes before the call
RECURSIVE classifier_calls(_)
classifier_calls(items) ==
    IF items = <<>> THEN <<>>
    ELSE LET txt == extract_year_text(Head(items)).text
         IN  (IF txt = <<>> THEN <<>> ELSE <<txt>>) \o classifier_calls(Tail(items))

\* variant: the tone of the text is not looked at
headline_candidate_anytone(it) == extract_year_text(it).text # <<>>

\* the loop's two skips: an item is kept when its text is non-empty and positive-ish
headline_candidate(it) ==
    LET txt == extract_year_text(it).text
    IN  IF txt = <<>> THEN FALSE
        ELSE IF ~is_positiveish_text(txt) THEN FALSE
        ELSE TRUE

has_positive_hint(it) ==
    any_hint_in(POSITIVE_HINTS, lower(extract_year_text(it).text))

\* variant: positive hints are not preferred
headline_pool_good(good, better) == good

\* pool = better or good
headline_pool(good, better) == IF better # <<>> THEN better ELSE good

NoItem == Item(JMissing, JMissing)

\* the result is [none |-> TRUE] for None, else the chosen item
pick_positiveish_item(items, seed) ==
    IF items = <<>> THEN [none |-> TRUE, item |-> NoItem]
    ELSE LET rng == Random(seed)
             good == SelectSeq(items, headline_candidate)
             better == SelectSeq(good, has_positive_hint)
             pool == headline_pool(good, better)
         IN  IF pool # <<>> THEN [none |-> FALSE, item |-> choice(rng, pool)]
             ELSE [none |-> TRUE, item |-> NoItem]

(***************************************************************************)
(* Birthday matcher.                                                       *)
(***************************************************************************)
digit_value(c) == (CHOOSE i \in 1..Len(Digits) : Digits[i] = c) - 1

RECURSIVE digits_value(_, _)
digits_value(s, acc) ==
    IF s = <<>> THEN acc ELSE digits_value(Tail(s), 10 * acc + digit_value(Head(s)))

\* the literals int(str) accepts: optional sign and decimal digits, spaces around
unsigned_part(s) ==
    IF s # <<>> /\ Head(s) \in {"+", "-"} THEN Tail(s) ELSE s

is_int_literal(s) ==
    LET u == unsigned_part(strip(s))
    IN  u # <<>> /\ \A i \in 1..Len(u) : \E d \in 1..Len(Digits) : Digits[d] = u[i]

int_of_str(s) ==
    LET t == strip(s)
        v == digits_value(unsigned_part(t), 0)
    IN  IF Head(t) = "-" THEN -v ELSE v

\* int(x): [exc |-> TRUE] when int() raises (None, a non-numeric string)
py_int(x) ==
    CASE x.kind = "int" -> [exc |-> FALSE, val |-> x.n]
      [] x.kind = "float" ->
            [exc |-> FALSE,
             val |-> IF x.n >= 0 THEN x.n \div 10 ELSE -((-x.n) \div 10)]
      [] x.kind = "str" ->
            IF is_int_literal(x.s) THEN [exc |-> FALSE, val |-> int_of_str(x.s)]
            ELSE [exc |-> TRUE, val |-> 0]
      [] x.kind = "null" -> [exc |-> TRUE, val |-> 0]

\* variant: the fallback value is 1
safe_int_one(x) == LET r == py_int(x) IN IF r.exc THEN 1 ELSE r.val

\* safe_int(x) with its default of 0
safe_int(x) == LET r == py_int(x) IN IF r.exc THEN 0 ELSE r.val

Person(name, month, day) ==
    [name |-> name, month |-> month, day |-> day,
     relation |-> JMissing, note |-> JMissing, phone |-> JMissing]

\* parts[-1] if parts else "", for a stripped name
RECURSIVE last_token(_)
last_token(name) ==
    IF name = <<>> \/ name[Len(name)] \in Whitespace THEN <<>>
    ELSE Append(last_token(SubSeq(name, 1, Len(name) - 1)), name[Len(name)])

sort_key(x) ==
    LET name == strip(py_str(get(x.name, JStr(<<>>))))
        last == last_token(name)
    IN  lower(last \o <<"|">> \o name)

\* variant: an element is placed before the elements of equal key
RECURSIVE insert_before_equal(_, _)
insert_before_equal(seq, x) ==
    IF seq = <<>> THEN <<x>>
    ELSE IF str_lt(sort_key(seq[Len(seq)]), sort_key(x)) THEN Append(seq, x)
    ELSE Append(insert_before_equal(SubSeq(seq, 1, Len(seq) - 1), x), seq[Len(seq)])

\* a later element goes behind every element whose key is not greater (stable)
RECURSIVE insert_sorted(_, _)
insert_sorted(seq, x) ==
    IF seq = <<>> THEN <<x>>
    ELSE IF str_lt(sort_key(x), sort_key(seq[Len(seq)]))
         THEN Append(insert_sorted(SubSeq(seq, 1, Len(seq) - 1), x), seq[Len(seq)])
         ELSE Append(seq, x)

\* sorted(hits, key=sort_key)
RECURSIVE sorted_loop(_, _)
sorted_loop(rest, acc) ==
    IF rest = <<>> THEN acc
    ELSE sorted_loop(Tail(rest), insert_sorted(acc, Head(rest)))

sorted_by_key(hits) == sorted_loop(hits, <<>>)

date_matches(b, month, day) ==
    safe_int(get(b.month, JNull)) = month /\ safe_int(get(b.day, JNull)) = day

RECURSIVE hits_loop(_, _, _, _)
hits_loop(birthdays, month, day, hits) ==
    IF birthdays = <<>> THEN hits
    ELSE hits_loop(Tail(birthdays), month, day,
                   IF date_matches(Head(birthdays), month, day)
                   THEN Append(hits, Head(birthdays)) ELSE hits)

birthdays_for_date(birthdays, month, day) ==
    sorted_by_key(hits_loop(birthdays, month, day, <<>>))

\* records of the explored birthdays.json
PZoeAdams == Person(JStr(<<"Z","o","e"," ","A","d","a","m","s">>), JInt(5), JInt(14))
\* month given as the string "5", day as " 14 "
PAmyZane == Person(JStr(<<"A","m","y"," ","Z","a","n","e">>), JStr(<<"5">>), JStr(<<" ","1","4"," ">>))
\* same key as "Amy Zane" once lowercased; month given as the float 5.9
PamyZane == Person(JStr(<<"a","m","y"," ","z","a","n","e">>), JFloat(59), JInt(14))
PBoLee == Person(JStr(<<"B","o"," ","L","e","e">>), JInt(5), JInt(14))
PAlLeeson == Person(JStr(<<"A","l"," ","L","e","e","s","o","n">>), JInt(5), JInt(14))
\* month given as the string "May"
PCyMoe == Person(JStr(<<"C","y"," ","M","o","e">>), JStr(<<"M","a","y">>), JInt(14))
\* no name, no month, day null
PNobody == Person(JMissing, JMissing, JNull)

PersonPool == {PZoeAdams, PAmyZane, PamyZane, PBoLee, PAlLeeson, PCyMoe, PNobody}

\* queried dates (month, day)
QueryDates == {<<5, 14>>, <<1, 14>>, <<0, 0>>}

(***************************************************************************)
(* Trivia items of the explored payloads.                                  *)
(***************************************************************************)
\* "Team won the championship"
ItWon == Item(JInt(1990), JStr(<<"T","e","a","m"," ","w","o","n"," ","t","h","e"," ","c","h","a","m","p","i","o","n","s","h","i","p">>))
\* "A deadly attack occurred"
ItAttack == Item(JInt(1941), JStr(<<"A"," ","d","e","a","d","l","y"," ","a","t","t","a","c","k"," ","o","c","c","u","r","r","e","d">>))
\* "Boston tea"
ItNeutral == Item(JStr(<<"1","7","7","3">>), JStr(<<"B","o","s","t","o","n"," ","t","e","a">>))

\* "Rock festival"
ItFestival == Item(JInt(1969), JStr(<<"R","o","c","k"," ","f","e","s","t","i","v","a","l">>))
\* "Won the war": a positive hint and a negative hint
ItWonWar == Item(JInt(1815), JStr(<<"W","o","n"," ","t","h","e"," ","w","a","r">>))
\* "Edward": negative by the substring "war"
ItEdward == Item(JInt(1901), JStr(<<"E","d","w","a","r","d">>))
\* whitespace only
ItBlank == Item(JInt(1900), JStr(<<" "," ">>))
\* no "text" key
ItNoText == Item(JInt(1900), JMissing)

\* " RED SOX at Boston ": upper case, spaces around
ItRedSox == Item(JInt(1918), JStr(<<" ","R","E","D"," ","S","O","X"," ","a","t"," ","B","o","s","t","o","n"," ">>))
\* "White album": holds "hit" inside a word
ItWhite == Item(JInt(1968), JStr(<<"W","h","i","t","e"," ","a","l","b","u","m">>))

FilterPool == {ItWon, ItNeutral, ItRedSox, ItWhite, ItNoText}

\* keywords as render_page and main build them: stripped and non-empty
KeywordPool ==
    { <<"B","o","s","t","o","n">>, <<"R","e","d"," ","S","o","x">>, <<"h","i","t">> }

SeqsUpTo(S, k) == UNION {[1..m -> S] : m \in 0..k}

SamplerPool == {ItWon, ItAttack, ItNeutral}

HeadlinePool == {ItWon, ItAttack, ItNeutral, ItFestival, ItWonWar, ItEdward, ItBlank, ItNoText}

\* texts handed to the classifier: the pool's texts and every short string
\* over a few characters around the hint "war"
ToneChars == {"w", "a", "r", "A", " "}

ToneTexts ==
    {extract_year_text(it).text : it \in HeadlinePool} \cup SeqsUpTo(ToneChars, MaxTextLen)

(***************************************************************************)
(* Sampler: calls of pick_items on one payload list, interleaved with      *)
(* draws from the module-level generator (fallback_fun_fact).              *)
(***************************************************************************)
NoCall == [set |-> FALSE, n |-> 0, seed |-> 0, pc |-> "idle", ret |-> <<>>, draws |-> 0]

InitSampler ==
    /\ pc = "idle"
    /\ args \in [items : SeqsUpTo(SamplerPool, MaxItems), n : {0}, seed : {0}]
    /\ ret = <<>>
    /\ first = NoCall
    /\ ncalls = 0
    /\ globalDraws = 0
    /\ log = <<>>
    /\ store = <<>>

PickItems(n, seed) ==
    /\ ncalls < MaxCalls
    /\ LET r == pick_items(args.items, n, seed)
           p == IF r.exc THEN "raised" ELSE "returned"
       IN  /\ pc' = p
           /\ ret' = r.val
           /\ first' = IF first.set THEN first
                       ELSE [set |-> TRUE, n |-> n, seed |-> seed, pc |-> p, ret |-> r.val,
                             draws |-> globalDraws]
    /\ args' = [args EXCEPT !.n = n, !.seed = seed]
    /\ ncalls' = ncalls + 1
    /\ UNCHANGED <<globalDraws, log, store>>

\* random.choice(options) in fallback_fun_fact: one draw from the shared generator
GlobalRandomChoice ==
    /\ globalDraws < MaxGlobalDraws
    /\ globalDraws' = globalDraws + 1
    /\ UNCHANGED <<pc, args, ret, first, ncalls, log, store>>

NextSampler ==
    \/ \E n \in -1..MaxN, seed \in 0..MaxSeed : PickItems(n, seed)
    \/ GlobalRandomChoice

SpecSampler == InitSampler /\ [][NextSampler]_vars

(***************************************************************************)
(* Classifier: is_positiveish_text applied to one text.                    *)
(***************************************************************************)
InitTone ==
    /\ pc = "idle"
    /\ args \in [text : ToneTexts]
    /\ ret = FALSE
    /\ first = NoCall
    /\ ncalls = 0
    /\ globalDraws = 0
    /\ log = <<>>
    /\ store = <<>>

Classify ==
    /\ pc = "idle"
    /\ pc' = "returned"
    /\ ret' = is_positiveish_text(args.text)
    /\ ncalls' = ncalls + 1
    /\ UNCHANGED <<args, first, globalDraws, log, store>>

SpecTone == InitTone /\ [][Classify]_vars

(***************************************************************************)
(* Headline pick: pick_positiveish_item applied to one list and seed.      *)
(***************************************************************************)
InitHeadline ==
    /\ pc = "idle"
    /\ args \in [items : SeqsUpTo(HeadlinePool, MaxItems), seed : 0..MaxSeed]
    /\ ret = [none |-> TRUE, item |-> NoItem]
    /\ first = NoCall
    /\ ncalls = 0
    /\ globalDraws = 0
    /\ log = <<>>
    /\ store = <<>>

PickPositiveish ==
    /\ pc = "idle"
    /\ pc' = "returned"
    /\ ret' = pick_positiveish_item(args.items, args.seed)
    /\ log' = classifier_calls(args.items)
    /\ ncalls' = ncalls + 1
    /\ UNCHANGED <<args, first, globalDraws, store>>

SpecHeadline == InitHeadline /\ [][PickPositiveish]_vars

(***************************************************************************)
(* Keyword filter: filter_keywords applied to one list and keyword list.   *)
(***************************************************************************)
InitFilter ==
    /\ pc = "idle"
    /\ args \in [items : SeqsUpTo(FilterPool, MaxItems),
                 keywords : SeqsUpTo(KeywordPool, MaxKeywords)]
    /\ ret = <<>>
    /\ first = NoCall
    /\ ncalls = 0
    /\ globalDraws = 0
    /\ log = <<>>
    /\ store = <<>>

FilterKeywords ==
    /\ pc = "idle"
    /\ pc' = "returned"
    /\ ret' = filter_keywords(args.items, args.keywords)
    /\ ncalls' = ncalls + 1
    /\ UNCHANGED <<args, first, globalDraws, log, store>>

SpecFilter == InitFilter /\ [][FilterKeywords]_vars

(***************************************************************************)
(* Birthday matcher: birthdays_for_date applied to a record list and a     *)
(* date, then applied again to its own result.                             *)
(***************************************************************************)
InitBirthday ==
    /\ pc = "idle"
    /\ args \in [birthdays : SeqsUpTo(PersonPool, MaxRecords),
                 month : {q[1] : q \in QueryDates}, day : {q[2] : q \in QueryDates}]
    /\ <<args.month, args.day>> \in QueryDates
    /\ ret = <<>>
    /\ first = NoCall
    /\ ncalls = 0
    /\ globalDraws = 0
    /\ log = <<>>
    /\ store = <<>>

BirthdaysForDate ==
    /\ pc = "idle"
    /\ pc' = "returned"
    /\ ret' = birthdays_for_date(args.birthdays, args.month, args.day)
    /\ ncalls' = ncalls + 1
    /\ UNCHANGED <<args, first, globalDraws, log, store>>

\* the result is matched again for the same date
BirthdaysForDateAgain ==
    /\ pc = "returned"
    /\ pc' = "rematched"
    /\ first' = [NoCall EXCEPT !.set = TRUE, !.pc = pc, !.ret = ret]
    /\ args' = [args EXCEPT !.birthdays = ret]
    /\ ret' = birthdays_for_date(ret, args.month, args.day)
    /\ ncalls' = ncalls + 1
    /\ UNCHANGED <<globalDraws, log, store>>

NextBirthday == BirthdaysForDate \/ BirthdaysForDateAgain

SpecBirthday == InitBirthday /\ [][NextBirthday]_vars

(***************************************************************************)
(* Properties of the sampler.                                              *)
(***************************************************************************)
Min(a, b) == IF a <= b THEN a ELSE b

Injective(p) == \A i, j \in DOMAIN p : p[i] = p[j] => i = j

\* r lists elements of items found at pairwise distinct positions
FromDistinctPositions(items, r) ==
    \E p \in [1..Len(r) -> 1..Len(items)] :
        Injective(p) /\ \A i \in 1..Len(r) : r[i] = items[p[i]]

C2_EveryN ==
    (pc # "idle") =>
        /\ pc = "returned"
        /\ Len(ret) = Min(args.n, Len(args.items))
        /\ FromDistinctPositions(args.items, ret)

\* C2 amended: for every n >= 0, pick_items returns without raising exactly
\* min(n, len(items)) elements taken from distinct positions of items; an empty
\* list gives an empty result.
C2_NonNegativeN ==
    (pc # "idle" /\ args.n >= 0) =>
        /\ pc = "returned"
        /\ Len(ret) = Min(args.n, Len(args.items))
        /\ FromDistinctPositions(args.items, ret)
        /\ (args.items = <<>> => ret = <<>>)

\* a proper sample of two elements from a list of three different items
C2_Witness ==
    /\ pc = "returned" /\ args.n = 2 /\ Len(ret) = 2
    /\ Len(args.items) = 3
    /\ \A i, j \in 1..3 : args.items[i] = args.items[j] => i = j

\* C3: when len(items) <= n, pick_items returns the input list itself, in its
\* original order, for every seed.
C3_SmallListUnchanged ==
    (pc # "idle" /\ Len(args.items) <= args.n) =>
        (pc = "returned" /\ ret = args.items)

\* a list of exactly n = 2 different items returned as given, seed not 0
C3_Witness ==
    /\ pc = "returned" /\ args.n = 2 /\ Len(args.items) = 2
    /\ args.items[1] # args.items[2] /\ args.seed # 0
    /\ ret = args.items

(***************************************************************************)
(* Properties of the tone heuristics.                                      *)
(***************************************************************************)
Elems(seq) == {seq[i] : i \in 1..Len(seq)}

\* some piece of the lowercased text is one of the hints
HasHint(hints, text) ==
    LET t == lower(text)
        hs == Elems(hints)
    IN  \E i \in 1..Len(t) : \E j \in i..Len(t) : SubSeq(t, i, j) \in hs

Blank(it) == extract_year_text(it).text = <<>>

Negative(it) == HasHint(NEGATIVE_HINTS, extract_year_text(it).text)

Positive(it) == HasHint(POSITIVE_HINTS, extract_year_text(it).text)

\* C8: is_positiveish_text(text) is false exactly when the lowercased text has
\* a NEGATIVE_HINTS entry as a substring (so "Edward" is negative), and true
\* otherwise, with or without a positive hint.
C8_NegationOfNegative ==
    (pc = "returned") =>
        /\ ret = ~HasHint(NEGATIVE_HINTS, args.text)
        /\ (args.text = <<"E","d","w","a","r","d">> => ret = FALSE)
        /\ (~HasHint(NEGATIVE_HINTS, args.text) => ret = TRUE)

\* a classified text holding the hint in mixed case inside a longer text
C8_Witness ==
    /\ pc = "returned" /\ ret = FALSE
    /\ Len(args.text) = 3 /\ args.text # lower(args.text)
    /\ lower(args.text) = <<"w","a","r">>

\* C9: pick_positiveish_item never returns an item whose text is blank or has a
\* negative hint; it returns None exactly when no item has non-blank,
\* non-negative text, and otherwise a member of items.
C9_NeverBlankOrNegative ==
    (pc = "returned") =>
        /\ ret.none <=> ~(\E i \in 1..Len(args.items) :
                              ~Blank(args.items[i]) /\ ~Negative(args.items[i]))
        /\ ~ret.none =>
              /\ ret.item \in Elems(args.items)
              /\ ~Blank(ret.item)
              /\ ~Negative(ret.item)

\* the only acceptable item of three is returned, after a negative and a blank one
C9_Witness ==
    /\ pc = "returned" /\ ~ret.none
    /\ Len(args.items) = 3
    /\ Negative(args.items[1]) /\ Blank(args.items[2])
    /\ ret.item = args.items[3]
    /\ args.seed # 0

\* C10: when some non-blank, non-negative item has a positive hint the returned
\* item has a positive hint, for every seed; when none has but some non-blank
\* non-negative item exists, one of those is returned rather than None.
C10_PositivePreferred ==
    (pc = "returned") =>
        LET ok == {i \in 1..Len(args.items) :
                      ~Blank(args.items[i]) /\ ~Negative(args.items[i])}
            hinted == {i \in ok : Positive(args.items[i])}
        IN  /\ hinted # {} => (~ret.none /\ Positive(ret.item))
            /\ (hinted = {} /\ ok # {}) =>
                  (~ret.none /\ \E i \in ok : ret.item = args.items[i])

\* a hinted item chosen although acceptable unhinted items come first in a longer list
C10_Witness ==
    /\ pc = "returned" /\ ~ret.none
    /\ Len(args.items) = 3
    /\ ~Blank(args.items[1]) /\ ~Negative(args.items[1]) /\ ~Positive(args.items[1])
    /\ Positive(args.items[3]) /\ ~Negative(args.items[3])
    /\ ret.item = args.items[3]

(***************************************************************************)
(* Properties of the keyword filter.                                       *)
(***************************************************************************)
\* the item's text as the dict holds it, lowercased
RawLowerText(it) == lower(py_str(get(it.text, JStr(<<>>))))

\* some piece of the item's lowercased text is the lowercased keyword
TextHasKeyword(it, k) ==
    LET t == RawLowerText(it)
        lk == lower(k)
    IN  \E i \in 1..Len(t) : \E j \in i..Len(t) : SubSeq(t, i, j) = lk

\* positions of the items matching some keyword
Matching(items, keywords) ==
    {i \in 1..Len(items) : \E k \in Elems(keywords) : TextHasKeyword(items[i], k)}

\* C4: filter_keywords returns exactly the items whose lowercased text has a
\* lowercased keyword as a substring, in their original order, each matching
\* occurrence once; no keywords, no items.
C4_FilterExact ==
    (pc = "returned") =>
        LET I == Matching(args.items, args.keywords)
        IN  /\ Len(ret) = Cardinality(I)
            /\ \A k \in 1..Len(ret) :
                  \E i \in I : /\ Cardinality({j \in I : j < i}) = k - 1
                               /\ ret[k] = args.items[i]
            /\ (args.keywords = <<>> => ret = <<>>)

\* a non-matching item dropped between two kept ones, the last matching both
\* keywords through upper case and kept once
C4_Witness ==
    /\ pc = "returned"
    /\ Len(args.items) = 3 /\ Len(args.keywords) = 2
    /\ Matching(args.items, args.keywords) = {1, 3}
    /\ \A k \in Elems(args.keywords) : TextHasKeyword(args.items[3], k)
    /\ RawLowerText(args.items[3]) # py_str(args.items[3].text)
    /\ ret = <<args.items[1], args.items[3]>>

(***************************************************************************)
(* Properties of the birthday matcher.                                     *)
(***************************************************************************)
Count(seq, x) == Cardinality({i \in 1..Len(seq) : seq[i] = x})

\* a month or day that is missing, null or a string that is no integer literal
NonNumeric(v) ==
    \/ v.kind \in {"missing", "null"}
    \/ /\ v.kind = "str"
       /\ LET u == strip(v.s)
              d == IF u # <<>> /\ Head(u) \in {"+", "-"} THEN Tail(u) ELSE u
          IN  d = <<>> \/ \E i \in 1..Len(d) : d[i] \notin Elems(Digits)

OnDate(b, month, day) ==
    safe_int(get(b.month, JNull)) = month /\ safe_int(get(b.day, JNull)) = day

\* C5: birthdays_for_date returns exactly the records whose month and day,
\* coerced with safe_int, equal the query; a record with a missing or
\* non-numeric month or day never matches a query with month in 1..12 and day
\* in 1..31; with no match the result is the empty list.
C5_ExactDateMatch ==
    (pc = "returned") =>
        /\ \A b \in PersonPool :
              Count(ret, b) = IF OnDate(b, args.month, args.day)
                              THEN Count(args.birthdays, b) ELSE 0
        /\ (args.month \in 1..12 /\ args.day \in 1..31) =>
              \A b \in Elems(ret) : ~NonNumeric(b.month) /\ ~NonNumeric(b.day)
        /\ (\A b \in Elems(args.birthdays) : ~OnDate(b, args.month, args.day))
              => ret = <<>>

\* a valid date queried on a list holding a record with the month "May" and a
\* record matching through the strings "5" and " 14 "
C5_Witness ==
    /\ pc = "returned" /\ args.month = 5 /\ args.day = 14
    /\ PCyMoe \in Elems(args.birthdays) /\ PCyMoe \notin Elems(ret)
    /\ PAmyZane \in Elems(ret)
    /\ Len(ret) = 2

NameOf(b) == strip(py_str(get(b.name, JStr(<<>>))))

\* the composite key order: last token first, then the full name, ignoring case
CompositeLess(a, b) ==
    LET la == lower(last_token(NameOf(a)))
        lb == lower(last_token(NameOf(b)))
    IN  \/ str_lt(la, lb)
        \/ la = lb /\ str_lt(lower(NameOf(a)), lower(NameOf(b)))

\* C6: the returned list is ascending by (last token of name, full name), both
\* compared ignoring case: a record with the smaller composite key comes first,
\* also when one last token is a proper prefix of the other.
C6_SortedByCompositeKey ==
    (pc = "returned") =>
        \A i, j \in 1..Len(ret) : CompositeLess(ret[i], ret[j]) => i < j

\* C7: matching the result of birthdays_for_date again for the same date gives
\* the same elements in the same order.
C7_Idempotent ==
    (pc = "rematched") => ret = first.ret

\* three records rematched, two of them with equal sort keys, given out of key order
C7_Witness ==
    /\ pc = "rematched" /\ Len(ret) = 3
    /\ \E i \in 1..2 : ret[i] # ret[i + 1] /\ sort_key(ret[i]) = sort_key(ret[i + 1])
    /\ ret = first.ret

(***************************************************************************)
(* Names in prose: join_names_nicely applied to one list of names.         *)
(***************************************************************************)
MaxNames == 3

\* sep.join(parts)
RECURSIVE str_join(_, _)
str_join(sep, parts) ==
    IF parts = <<>> THEN <<>>
    ELSE IF Len(parts) = 1 THEN parts[1]
    ELSE parts[1] \o sep \o str_join(sep, Tail(parts))

\* [n.strip() for n in names if n.strip()]
RECURSIVE stripped_nonblank(_)
stripped_nonblank(names) ==
    IF names = <<>> THEN <<>>
    ELSE (IF strip(Head(names)) # <<>> THEN <<strip(Head(names))>> ELSE <<>>)
         \o stripped_nonblank(Tail(names))

join_names_keep_blank(names) ==
    LET ns == [i \in 1..Len(names) |-> strip(names[i])]
    IN  IF ns = <<>> THEN <<>>
        ELSE IF Len(ns) = 1 THEN ns[1]
        ELSE IF Len(ns) = 2 THEN ns[1] \o <<" ","a","n","d"," ">> \o ns[2]
        ELSE str_join(<<","," ">>, SubSeq(ns, 1, Len(ns) - 1)) \o <<","," ","a","n","d"," ">> \o ns[Len(ns)]

join_names_nicely(names) ==
    LET ns == stripped_nonblank(names)
    IN  IF ns = <<>> THEN <<>>
        ELSE IF Len(ns) = 1 THEN ns[1]
        ELSE IF Len(ns) = 2 THEN ns[1] \o <<" ","a","n","d"," ">> \o ns[2]
        ELSE str_join(<<","," ">>, SubSeq(ns, 1, Len(ns) - 1)) \o <<","," ","a","n","d"," ">> \o ns[Len(ns)]

\* names as they come from birthdays.json or from the famous-birthday picker
NamePool == {<<"A","l">>, <<" ","B","o"," ">>, <<"C","y">>, <<>>, <<" ">>}

InitJoin ==
    /\ pc = "idle"
    /\ args \in [names : SeqsUpTo(NamePool, MaxNames)]
    /\ ret = <<>>
    /\ first = NoCall
    /\ ncalls = 0
    /\ globalDraws = 0
    /\ log = <<>>
    /\ store = <<>>

JoinNames ==
    /\ pc = "idle"
    /\ pc' = "returned"
    /\ ret' = join_names_nicely(args.names)
    /\ ncalls' = ncalls + 1
    /\ UNCHANGED <<args, first, globalDraws, log, store>>

SpecJoin == InitJoin /\ [][JoinNames]_vars

(***************************************************************************)
(* Properties of join_names_nicely.                                        *)
(***************************************************************************)
\* the names that are not blank, trimmed, in input order
NonBlankTrimmed(names) ==
    LET keep == SelectSeq(names, LAMBDA n : \E i \in 1..Len(n) : n[i] \notin Whitespace)
    IN  [i \in 1..Len(keep) |-> strip(keep[i])]

RECURSIVE Flatten(_)
Flatten(ss) == IF ss = <<>> THEN <<>> ELSE Head(ss) \o Flatten(Tail(ss))

\* each name followed by what separates it from the next one
NaturalJoin(ns) ==
    LET k == Len(ns)
        after(i) == IF i = k THEN <<>>
                    ELSE IF k = 2 THEN <<" ","a","n","d"," ">>
                    ELSE IF i = k - 1 THEN <<","," ","a","n","d"," ">>
                    ELSE <<","," ">>
    IN  Flatten([i \in 1..k |-> ns[i] \o after(i)])

\* C14: join_names_nicely returns the natural join of the non-blank, trimmed
\* names in input order: "" for none, the name for one, "A and B" for two,
\* "A, B, and C" for three or more; blank names are dropped before the rule.
C14_NaturalJoin ==
    pc = "returned" =>
        LET ns == NonBlankTrimmed(args.names)
        IN  /\ ret = NaturalJoin(ns)
            /\ Len(ns) = 0 => ret = <<>>
            /\ Len(ns) = 1 => ret = ns[1]
            /\ Len(ns) = 2 => ret = ns[1] \o <<" ","a","n","d"," ">> \o ns[2]
            /\ Len(ns) = 3 => ret = ns[1] \o <<","," ">> \o ns[2] \o <<","," ","a","n","d"," ">> \o ns[3]

C14_Witness ==
    /\ pc = "returned"
    /\ args.names = <<<<" ","B","o"," ">>, <<" ">>, <<"A","l">>>>
    /\ ret = <<"B","o"," ","a","n","d"," ","A","l">>

(***************************************************************************)
(* Famous birthdays: pick_famous_birthdays.                                *)
(***************************************************************************)
FAMOUS_SEED_OFFSET == 4242

\* text.split(",", 1)[0]
RECURSIVE before_first_comma(_)
before_first_comma(s) ==
    IF s = <<>> \/ Head(s) = "," THEN <<>>
    ELSE <<Head(s)>> \o before_first_comma(Tail(s))

extract_birth_name(birth_item) ==
    LET text == strip(py_str(get(birth_item.text, JStr(<<>>))))
    IN  IF text = <<>> THEN <<>> ELSE strip(before_first_comma(text))

\* the first loop: names of the records whose text is non-empty and positive-ish
RECURSIVE famous_candidates(_)
famous_candidates(births) ==
    IF births = <<>> THEN <<>>
    ELSE LET b == Head(births)
             text == extract_year_text(b).text
             name == extract_birth_name(b)
         IN  (IF text = <<>> THEN <<>>
              ELSE IF ~is_positiveish_text(text) THEN <<>>
              ELSE IF name # <<>> THEN <<name>> ELSE <<>>)
             \o famous_candidates(Tail(births))

\* variant: every spelling of a name is kept
RECURSIVE uniq_names_cased(_, _)
uniq_names_cased(candidates, seen) ==
    IF candidates = <<>> THEN <<>>
    ELSE LET name == Head(candidates)
         IN  IF name \in seen THEN uniq_names_cased(Tail(candidates), seen)
             ELSE <<name>> \o uniq_names_cased(Tail(candidates), seen \cup {name})

\* the second loop: the first spelling of each name, compared in lower case
RECURSIVE uniq_names(_, _)
uniq_names(candidates, seen) ==
    IF candidates = <<>> THEN <<>>
    ELSE LET name == Head(candidates)
             key == lower(name)
         IN  IF key \in seen THEN uniq_names(Tail(candidates), seen)
             ELSE <<name>> \o uniq_names(Tail(candidates), seen \cup {key})

\* variant: the names are never sampled
pick_famous_birthdays_all(births, seed, n) ==
    IF births = <<>> THEN [exc |-> FALSE, val |-> <<>>]
    ELSE LET uniq == uniq_names(famous_candidates(births), {})
         IN  [exc |-> FALSE, val |-> uniq]

pick_famous_birthdays(births, seed, n) ==
    IF births = <<>> THEN [exc |-> FALSE, val |-> <<>>]
    ELSE LET rng == Random(seed + FAMOUS_SEED_OFFSET)
             uniq == uniq_names(famous_candidates(births), {})
         IN  IF uniq = <<>> THEN [exc |-> FALSE, val |-> <<>>]
             ELSE IF Len(uniq) <= n THEN [exc |-> FALSE, val |-> uniq]
             ELSE sample(rng, uniq, n)

\* births of the payload: "Ada, poet", " ADA , MP", "Bo", "Cy, MP", "Di, war"
Births ==
    << Item(JInt(1815), JStr(<<"A","d","a",","," ","p","o","e","t">>)),
       Item(JInt(1820), JStr(<<" ","A","D","A"," ",","," ","M","P">>)),
       Item(JStr(<<"1","9","4","0">>), JStr(<<"B","o">>)),
       Item(JInt(1950), JStr(<<"C","y",","," ","M","P">>)),
       Item(JInt(1900), JStr(<<"D","i",","," ","w","a","r">>)),
       ItBlank >>

\* the lists of at most k different elements of a sequence
DistinctSeqsUpTo(seq, k) ==
    UNION {{[i \in 1..m |-> seq[p[i]]] : p \in {q \in [1..m -> 1..Len(seq)] : Injective(q)}} :
           m \in 0..k}

(***************************************************************************)
(* Pickers: pick_famous_birthdays applied to one list of the payload, and  *)
(* applied again after draws from the module-level generator;              *)
(* pick_positiveish_item applied to the same list.                         *)
(***************************************************************************)
InitPickers ==
    /\ pc = "idle"
    /\ args \in [items : DistinctSeqsUpTo(Births, MaxItems), seed : 0..MaxSeed, n : {0}]
    /\ ret = <<>>
    /\ first = NoCall
    /\ ncalls = 0
    /\ globalDraws = 0
    /\ log = <<>>
    /\ store = <<>>

PickFamousBirthdays(n) ==
    /\ pc = "idle"
    /\ LET r == pick_famous_birthdays(args.items, args.seed, n)
       IN  /\ pc' = IF r.exc THEN "raised" ELSE "picked"
           /\ ret' = r.val
    /\ args' = [args EXCEPT !.n = n]
    /\ log' = IF args.items = <<>> THEN <<>> ELSE classifier_calls(args.items)
    /\ ncalls' = ncalls + 1
    /\ UNCHANGED <<first, globalDraws, store>>

\* a later call with the same births, seed and n
PickFamousBirthdaysAgain ==
    /\ pc = "picked"
    /\ LET r == pick_famous_birthdays(args.items, args.seed, args.n)
       IN  /\ pc' = IF r.exc THEN "raised" ELSE "repicked"
           /\ ret' = r.val
    /\ first' = [NoCall EXCEPT !.set = TRUE, !.pc = pc, !.ret = ret, !.draws = globalDraws]
    /\ log' = IF args.items = <<>> THEN <<>> ELSE classifier_calls(args.items)
    /\ ncalls' = ncalls + 1
    /\ UNCHANGED <<args, globalDraws, store>>

NextPickers ==
    \/ \E n \in 0..MaxN : PickFamousBirthdays(n)
    \/ PickFamousBirthdaysAgain
    \/ PickPositiveish
    \/ GlobalRandomChoice

SpecPickers == InitPickers /\ [][NextPickers]_vars

(***************************************************************************)
(* Properties of the pickers.                                              *)
(***************************************************************************)
\* the item has no "text", or one made of white space only
TextIsBlank(it) ==
    \/ it.text.kind = "missing"
    \/ it.text.kind = "str" /\ \A i \in 1..Len(it.text.s) : it.text.s[i] \in Whitespace

\* the trimmed text before the first comma
BirthName(it) ==
    LET t == strip(it.text.s)
        commas == {i \in 1..Len(t) : t[i] = ","}
        k == IF commas = {} THEN Len(t) + 1 ELSE CHOOSE i \in commas : \A j \in commas : i <= j
    IN  strip(SubSeq(t, 1, k - 1))

Qualifies(it) == ~TextIsBlank(it) /\ ~Negative(it) /\ BirthName(it) # <<>>

\* the names of the qualifying records, in input order
QualifyingNames(births) ==
    LET q == SelectSeq(births, Qualifies)
    IN  [i \in 1..Len(q) |-> BirthName(q[i])]

\* of the names equal ignoring case, the one seen first
RECURSIVE FirstSpellings(_, _)
FirstSpellings(q, i) ==
    IF i > Len(q) THEN <<>>
    ELSE (IF \E j \in 1..(i - 1) : lower(q[j]) = lower(q[i]) THEN <<>> ELSE <<q[i]>>)
         \o FirstSpellings(q, i + 1)

UniqueCount(births) ==
    Cardinality({lower(n) : n \in Elems(QualifyingNames(births))})

FamousPicked == pc \in {"picked", "repicked"}

\* C11: is_positiveish_text is called only with texts that are non-empty after
\* stripping, once for each item whose text is not missing, empty or blank; such
\* an item is neither the item pick_positiveish_item returns nor the source of a
\* name pick_famous_birthdays returns.
C11_BlankNeverClassified ==
    (pc \in {"returned", "picked", "repicked"}) =>
        /\ \A i \in 1..Len(log) : strip(log[i]) # <<>>
        /\ LET kept == SelectSeq(args.items, LAMBDA it : ~TextIsBlank(it))
           IN  log = [i \in 1..Len(kept) |-> strip(kept[i].text.s)]
        /\ (pc = "returned" /\ ~ret.none) => ~TextIsBlank(ret.item)
        /\ FamousPicked =>
              \A i \in 1..Len(ret) : \E j \in 1..Len(args.items) :
                  ~TextIsBlank(args.items[j]) /\ BirthName(args.items[j]) = ret[i]

\* both pickers have passed over a blank item of the list
C11_Witness ==
    /\ \E i \in 1..Len(args.items) : TextIsBlank(args.items[i])
    /\ Len(log) = 2
    /\ \/ pc = "returned" /\ ~ret.none
       \/ pc = "picked" /\ ret # <<>>

\* C12: every name pick_famous_birthdays returns is the trimmed text before the
\* first comma of a record whose text is non-empty and positive-ish; no two
\* returned names are equal ignoring case; when at most n names are unique
\* ignoring case the result is all of them, first spelling kept, in first-seen
\* order.
C12_NamesOfQualifyingRecords ==
    FamousPicked =>
        /\ \A i \in 1..Len(ret) : \E j \in 1..Len(args.items) :
              /\ ~TextIsBlank(args.items[j])
              /\ ~Negative(args.items[j])
              /\ ret[i] = BirthName(args.items[j])
        /\ \A i, j \in 1..Len(ret) : lower(ret[i]) = lower(ret[j]) => i = j
        /\ UniqueCount(args.items) <= args.n =>
              ret = FirstSpellings(QualifyingNames(args.items), 1)

\* "Bo", then "Ada" under its first spelling: the second spelling and the
\* negative record are left out
C12_Witness ==
    /\ pc = "picked"
    /\ args.items = <<Births[3], Births[1], Births[2]>>
    /\ args.n = 2
    /\ ret = <<<<"B","o">>, <<"A","d","a">>>>

\* C13: pick_famous_birthdays returns min(n, u) names for u unique qualifying
\* names; when u > n they are n names of distinct positions drawn by
\* Random(seed + 4242), and a later call with the same births, seed and n
\* returns the same list; no births gives the empty list.
C13_MinOfNAndUnique ==
    /\ pc # "raised"
    /\ FamousPicked =>
          LET uniq == FirstSpellings(QualifyingNames(args.items), 1)
              u == UniqueCount(args.items)
          IN  /\ Len(ret) = Min(args.n, u)
              /\ u > args.n =>
                    /\ FromDistinctPositions(uniq, ret)
                    /\ ret = sample(Random(args.seed + 4242), uniq, args.n).val
              /\ args.items = <<>> => ret = <<>>
    /\ pc = "repicked" => ret = first.ret

\* two of three unique names are drawn, and drawn again after a draw from the
\* module-level generator
C13_Witness ==
    /\ pc = "repicked"
    /\ UniqueCount(args.items) = 3
    /\ args.n = 2
    /\ Len(ret) = 2
    /\ globalDraws > first.draws

(***************************************************************************)
(* Summary composer: make_sms_summary.  A character outside ASCII is       *)
(* written as its code point, "U+1F389".                                   *)
(***************************************************************************)
SUMMARY_SEED_OFFSET == 999
HEADLINE_PICK_OFFSET == 1
SPORTS_PICK_OFFSET == 2
ROCK_PICK_OFFSET == 3

\* variant: only a period counts as terminal punctuation
ends_with_period(s) ==
    LET t == strip(s)
    IN  t # <<>> /\ t[Len(t)] = "."

ends_with_punct(s) ==
    LET t == strip(s)
    IN  t # <<>> /\ t[Len(t)] \in {".", "!", "?"}

\* variant: no period is added
sentence_plain(s) == strip(s)

sentence(s) ==
    LET t == strip(s)
    IN  IF t = <<>> THEN t
        ELSE IF ends_with_punct(t) THEN t ELSE t \o <<".">>

openers(date_label) ==
    << <<"U+1F389"," ","H","e","a","r"," ","y","e",","," ","h","e","a","r"," ","y","e",":"," ","i","t","U+2019","s"," ">> \o date_label \o <<" ","a","n","d"," ","t","h","e"," ","v","i","b","e","s"," ","a","r","e"," ","b","i","r","t","h","d","a","y","-","s","h","a","p","e","d",".">>,
       <<"U+2728"," ","F","a","m","i","l","y"," ","b","u","l","l","e","t","i","n","!"," ">> \o date_label \o <<" ","j","u","s","t"," ","w","a","l","k","e","d"," ","i","n"," ","w","e","a","r","i","n","g"," ","c","o","n","f","e","t","t","i"," ","a","n","d"," ","d","e","m","a","n","d","i","n","g"," ","c","a","k","e",".">>,
       <<"U+1F388","O","k","a","y"," ","t","e","a","m",":"," ">> \o date_label \o <<" ","f","u","n"," ","f","a","c","t","s"," ","i","n","c","o","m","i","n","g"," ","U+2014"," ","h","e","l","m","e","t","s"," ","o","p","t","i","o","n","a","l",","," ","j","o","y"," ","r","e","q","u","i","r","e","d",".">>,
       <<"U+1F48C"," ","A"," ","c","h","e","e","r","f","u","l"," ">> \o date_label \o <<" ","d","i","s","p","a","t","c","h"," ","f","r","o","m"," ","t","h","e"," ","U+2018","t","h","i","s"," ","d","a","y","U+2019"," ","d","e","p","a","r","t","m","e","n","t"," ","o","f"," ","w","h","i","m","s","y"," ","(","n","o","w"," ","w","i","t","h"," ","e","x","t","r","a"," ","s","p","a","r","k","l","e",")",".">> >>

rituals ==
    << <<"T","o","d","a","y","U+2019","s"," ","t","i","n","y"," ","m","i","s","s","i","o","n",":"," ","s","e","n","d"," ","o","n","e"," ","n","i","c","e"," ","t","e","x","t",","," ","e","a","t"," ","o","n","e"," ","g","o","o","d"," ","s","n","a","c","k",","," ","a","n","d"," ","d","o"," ","o","n","e"," ","d","r","a","m","a","t","i","c"," ","U+201C","t","a","-","d","a","!","U+201D"," ","f","o","r"," ","n","o"," ","r","e","a","s","o","n",".">>,
       <<"B","i","r","t","h","d","a","y"," ","p","r","o","t","o","c","o","l",":"," ","d","e","p","l","o","y"," ","e","m","o","j","i","s",","," ","d","e","l","i","v","e","r"," ","c","o","m","p","l","i","m","e","n","t","s",","," ","a","n","d"," ","d","o"," ","n","o","t"," ","l","e","t"," ","t","h","e"," ","c","a","k","e","-","t","o","-","f","u","n"," ","r","a","t","i","o"," ","f","a","l","l"," ","b","e","l","o","w"," ","1",":","1",".">>,
       <<"Y","o","u","r"," ","a","s","s","i","g","n","m","e","n","t"," ","(","s","h","o","u","l","d"," ","y","o","u"," ","c","h","o","o","s","e"," ","t","o"," ","a","c","c","e","p","t"," ","i","t",")",":"," ","b","e"," ","k","i","n","d",","," ","b","e"," ","g","o","o","f","y",","," ","a","n","d"," ","p","r","e","t","e","n","d"," ","y","o","u","U+2019","r","e"," ","i","n"," ","a"," ","c","e","l","e","b","r","a","t","o","r","y"," ","m","o","n","t","a","g","e",".">>,
       <<"M","a","n","d","a","t","o","r","y"," ","h","o","l","i","d","a","y"," ","f","o","r"," ","t","h","e"," ","s","o","u","l",":"," ","l","a","u","g","h"," ","o","n","c","e",","," ","h","y","p","e"," ","s","o","m","e","o","n","e"," ","u","p",","," ","a","n","d"," ","c","o","n","s","i","d","e","r"," ","a"," ","s","e","c","o","n","d"," ","d","e","s","s","e","r","t"," ","p","u","r","e","l","y"," ","o","n"," ","p","r","i","n","c","i","p","l","e",".">> >>

bday_lines(names_joined) ==
    << <<"U+1F382"," ","A","n","d"," ","M","O","S","T"," ","i","m","p","o","r","t","a","n","t","l","y",":"," ","h","a","p","p","y"," ","b","i","r","t","h","d","a","y"," ","t","o"," ">> \o names_joined \o <<"!"," ","M","a","y"," ","y","o","u","r"," ","d","a","y"," ","b","e"," ","f","u","n",","," ","y","o","u","r"," ","c","a","k","e"," ","b","e"," ","g","e","n","e","r","o","u","s",","," ","a","n","d"," ","y","o","u","r"," ","g","r","o","u","p"," ","c","h","a","t"," ","b","e"," ","a","p","p","r","o","p","r","i","a","t","e","l","y"," ","c","h","a","o","t","i","c",".">>,
       <<"U+1F973"," ","B","i","r","t","h","d","a","y"," ","a","l","e","r","t"," ","f","o","r"," ">> \o names_joined \o <<"!"," ","W","i","s","h","i","n","g"," ","y","o","u"," ","b","i","g"," ","l","a","u","g","h","s",","," ","g","o","o","d"," ","f","o","o","d",","," ","a","n","d"," ","a","b","s","o","l","u","t","e","l","y"," ","z","e","r","o"," ","r","e","s","p","o","n","s","i","b","i","l","i","t","i","e","s"," ","(","e","x","c","e","p","t"," ","e","n","j","o","y","i","n","g"," ","y","o","u","r","s","e","l","f",")",".">>,
       <<"U+1F389"," ","I","t","U+2019","s"," ">> \o names_joined \o <<"U+2019","s"," ","b","i","r","t","h","d","a","y","!"," ","E","v","e","r","y","o","n","e"," ","s","e","n","d"," ","l","o","v","e",","," ","m","e","m","e","s",","," ","a","n","d"," ","p","o","s","s","i","b","l","y"," ","a"," ","r","i","d","i","c","u","l","o","u","s"," ","a","m","o","u","n","t"," ","o","f"," ","c","a","k","e"," ","e","m","o","j","i","s","."," ","U+1F382","U+1F382","U+1F382">>,
       <<"U+1F388"," ","T","o","d","a","y"," ","w","e"," ","c","e","l","e","b","r","a","t","e"," ">> \o names_joined \o <<"!"," ","H","o","p","e"," ","y","o","u","r"," ","d","a","y"," ","i","s"," ","a"," ","h","i","g","h","l","i","g","h","t"," ","r","e","e","l"," ","a","n","d"," ","y","o","u","r"," ","y","e","a","r"," ","i","s"," ","e","v","e","n"," ","b","e","t","t","e","r",".">> >>

signoffs ==
    << <<"L","o","v","e"," ","y","o","u"," ","a","l","l"," ","U+2014"," ","n","o","w"," ","g","o"," ","f","o","r","t","h"," ","a","n","d"," ","b","e"," ","d","e","l","i","g","h","t","f","u","l",".">>,
       <<"E","n","d"," ","o","f"," ","b","u","l","l","e","t","i","n","."," ","P","l","e","a","s","e"," ","c","e","l","e","b","r","a","t","e"," ","r","e","s","p","o","n","s","i","b","l","y"," ","(","o","r"," ","a","t"," ","l","e","a","s","t"," ","e","n","t","h","u","s","i","a","s","t","i","c","a","l","l","y",")",".">>,
       <<"T","h","i","s"," ","m","e","s","s","a","g","e"," ","w","a","s"," ","b","r","o","u","g","h","t"," ","t","o"," ","y","o","u"," ","b","y"," ","t","h","e"," ","S","p","i","r","i","t"," ","o","f"," ","P","a","t","t","i","U+2122"," ","a","n","d"," ","t","h","e"," ","D","e","p","a","r","t","m","e","n","t"," ","o","f"," ","G","o","o","d"," ","V","i","b","e","s",".">>,
       <<"A","l","r","i","g","h","t",","," ","t","h","a","t","U+2019","s"," ","t","h","e"," ","r","e","p","o","r","t","."," ","S","o","m","e","b","o","d","y"," ","c","u","e"," ","t","h","e"," ","b","i","r","t","h","d","a","y"," ","p","l","a","y","l","i","s","t","!">> >>

\* variant: only the first hit is named
hit_names_first(birthday_hits) ==
    <<strip(py_str(get(birthday_hits[1].name, JStr(<<"s","o","m","e","o","n","e">>))))>>

\* [str(x.get("name", "someone")).strip() for x in birthday_hits]
hit_names(birthday_hits) ==
    [i \in 1..Len(birthday_hits) |->
        strip(py_str(get(birthday_hits[i].name, JStr(<<"s","o","m","e","o","n","e">>))))]

\* s2: the headline sentence
headline_sentence(headline_it) ==
    IF ~headline_it.none
    THEN LET yt == extract_year_text(headline_it.item)
         IN  sentence(<<"O","n"," ","t","h","i","s"," ","d","a","y"," ","i","n"," ">> \o yt.year \o <<":", " ">> \o yt.text)
    ELSE sentence(<<"O","n"," ","t","h","i","s"," ","d","a","y"," ","i","n"," ","h","i","s","t","o","r","y",":"," ","s","o","m","e","t","h","i","n","g"," ","i","n","t","e","r","e","s","t","i","n","g"," ","d","e","f","i","n","i","t","e","l","y"," ","h","a","p","p","e","n","e","d",","," ","a","n","d"," ","w","e","U+2019","r","e"," ","c","h","o","o","s","i","n","g"," ","t","o"," ","f","o","c","u","s"," ","o","n"," ","t","h","e"," ","s","p","a","r","k","l","e">>)

\* extras: sports corner, classic rock, famous birthdays
extras_sentences(sports_it, rock_it, famous_bdays) ==
    (IF ~sports_it.none
     THEN LET yt == extract_year_text(sports_it.item)
          IN  <<sentence(<<"U+1F3DF","U+FE0F"," ","B","o","s","t","o","n"," ","s","p","o","r","t","s"," ","c","o","r","n","e","r",":"," ">> \o yt.year \o <<" ","U+2014"," ">> \o yt.text)>>
     ELSE <<>>)
    \o (IF ~rock_it.none
        THEN LET yt == extract_year_text(rock_it.item)
             IN  <<sentence(<<"U+1F3B8"," ","C","l","a","s","s","i","c"," ","r","o","c","k"," ","t","i","m","e"," ","m","a","c","h","i","n","e",":"," ">> \o yt.year \o <<" ","U+2014"," ">> \o yt.text)>>
        ELSE <<>>)
    \o (IF famous_bdays # <<>>
        THEN <<sentence(<<"U+2B50"," ","F","a","m","o","u","s"," ","b","i","r","t","h","d","a","y"," ","r","o","l","l"," ","c","a","l","l",":"," ">> \o join_names_nicely(famous_bdays) \o <<" ","s","h","a","r","e"," ","t","h","i","s"," ","d","a","t","e"," ","t","o","o">>),
               sentence(<<"S","o"," ","y","e","s",","," ","t","o","d","a","y","U+2019","s"," ","t","h","e","m","e"," ","i","s",":"," ","U+2018","l","e","g","e","n","d","a","r","y"," ","c","o","m","p","a","n","y",","," ","a","c","c","e","p","t","a","b","l","e"," ","l","e","v","e","l","s"," ","o","f"," ","c","h","a","o","s",".","U+2019">>)>>
        ELSE <<>>)

\* the list parts, before the final join
make_sms_parts(date_label, fun_fact, featured_events, bostonish_featured, rock_featured, birthday_hits, famous_bdays, seed) ==
    LET rng == Random(seed + SUMMARY_SEED_OFFSET)
        headline_it == pick_positiveish_item(featured_events, seed + HEADLINE_PICK_OFFSET)
        sports_it == pick_positiveish_item(bostonish_featured, seed + SPORTS_PICK_OFFSET)
        rock_it == pick_positiveish_item(rock_featured, seed + ROCK_PICK_OFFSET)
        s1 == sentence(choice(rng, openers(date_label)))
        rng_1 == rng_next(rng)
        s2 == headline_sentence(headline_it)
        s3 == sentence(<<"D","i","d"," ","y","o","u"," ","k","n","o","w","?"," ">> \o strip(fun_fact))
        extras == extras_sentences(sports_it, rock_it, famous_bdays)
        s4 == sentence(choice(rng_1, rituals))
        rng_2 == rng_next(rng_1)
        names_joined == join_names_nicely(hit_names(birthday_hits))
        s5 == IF birthday_hits # <<>>
              THEN sentence(choice(rng_2, bday_lines(names_joined)))
              ELSE sentence(<<"A","n","d"," ","i","f"," ","i","t","U+2019","s"," ","s","e","c","r","e","t","l","y"," ","y","o","u","r"," ","b","i","r","t","h","d","a","y"," ","a","n","d"," ","y","o","u"," ","d","i","d","n","U+2019","t"," ","t","e","l","l"," ","u","s","U+2026"," ","c","o","n","g","r","a","t","s"," ","o","n"," ","t","h","e"," ","s","t","e","a","l","t","h"," ","m","i","s","s","i","o","n","."," ","U+1F604">>)
        s6 == IF birthday_hits # <<>>
              THEN sentence(<<"E","v","e","r","y","b","o","d","y"," ","s","a","y"," ","h","a","p","p","y"," ","b","i","r","t","h","d","a","y"," ","r","i","g","h","t"," ","n","o","w"," ","(","y","e","s",","," ","e","v","e","n"," ","t","h","e"," ","l","u","r","k","e","r","s",")"," ","U+1F38A">>)
              ELSE sentence(<<"S","t","i","l","l",":"," ","y","o","u"," ","d","e","s","e","r","v","e"," ","a"," ","c","o","o","k","i","e"," ","f","o","r"," ","s","u","r","v","i","v","i","n","g"," ","t","o","d","a","y","."," ","U+1F36A">>)
        rng_3 == IF birthday_hits # <<>> THEN rng_next(rng_2) ELSE rng_2
        s7 == sentence(choice(rng_3, signoffs))
    IN  <<s1, s2, s3>> \o extras \o <<s4, s5, s6, s7>>

\* variant: the sentences are joined by two spaces
make_sms_summary_wide(date_label, fun_fact, featured_events, bostonish_featured, rock_featured, birthday_hits, famous_bdays, seed) ==
    str_join(<<" ", " ">>,
             stripped_nonblank(make_sms_parts(date_label, fun_fact, featured_events,
                                              bostonish_featured, rock_featured,
                                              birthday_hits, famous_bdays, seed)))

make_sms_summary(date_label, fun_fact, featured_events, bostonish_featured, rock_featured, birthday_hits, famous_bdays, seed) ==
    str_join(<<" ">>,
             stripped_nonblank(make_sms_parts(date_label, fun_fact, featured_events,
                                              bostonish_featured, rock_featured,
                                              birthday_hits, famous_bdays, seed)))

(***************************************************************************)
(* Composer: make_sms_summary applied to one set of inputs, and applied    *)
(* again to the same inputs after draws from the module-level generator.   *)
(***************************************************************************)
MaxHits == 2

\* fun facts: "", " ", "Cake is old", " Why not? "
FunFacts == {<<>>, <<" ">>, <<"C","a","k","e"," ","i","s"," ","o","l","d">>, <<" ","W","h","y"," ","n","o","t","?"," ">>}

\* birthday hits: a name, no "name" key, a blank name
HitPool == {PZoeAdams, Person(JMissing, JInt(5), JInt(14)), Person(JStr(<<" ">>), JInt(5), JInt(14))}

\* featured events, sports items, rock items and famous names of a page
FeaturedCases ==
    { <<<<>>, <<>>, <<>>, <<>>>>,
      <<<<ItAttack, ItNeutral>>, <<>>, <<>>, <<>>>>,
      <<<<>>, <<ItRedSox>>, <<>>, <<<<"A","d","a">>, <<"B","o">>>>>>,
      <<<<ItAttack, ItNeutral>>, <<ItRedSox>>, <<ItFestival>>, <<<<"A","d","a">>, <<"B","o">>>>>> }

InitSummary ==
    /\ pc = "idle"
    /\ args \in [date_label : {<<"M","a","y"," ","1","4">>},
                 fun_fact : FunFacts,
                 featured_events : {<<>>, <<ItAttack, ItNeutral>>},
                 bostonish_featured : {<<>>, <<ItRedSox>>},
                 rock_featured : {<<>>, <<ItFestival>>},
                 birthday_hits : SeqsUpTo(HitPool, MaxHits),
                 famous_bdays : {<<>>, <<<<"A","d","a">>, <<"B","o">>>>},
                 seed : 0..MaxSeed]
    /\ <<args.featured_events, args.bostonish_featured, args.rock_featured,
         args.famous_bdays>> \in FeaturedCases
    /\ ret = <<>>
    /\ first = NoCall
    /\ ncalls = 0
    /\ globalDraws = 0
    /\ log = <<>>
    /\ store = <<>>

MakeSmsSummary ==
    /\ pc = "idle"
    /\ pc' = "returned"
    /\ ret' = make_sms_summary(args.date_label, args.fun_fact, args.featured_events,
                               args.bostonish_featured, args.rock_featured,
                               args.birthday_hits, args.famous_bdays, args.seed)
    /\ log' = make_sms_parts(args.date_label, args.fun_fact, args.featured_events,
                             args.bostonish_featured, args.rock_featured,
                             args.birthday_hits, args.famous_bdays, args.seed)
    /\ ncalls' = ncalls + 1
    /\ UNCHANGED <<args, first, globalDraws, store>>

\* a later call with the same inputs
MakeSmsSummaryAgain ==
    /\ pc = "returned"
    /\ pc' = "repeated"
    /\ first' = [NoCall EXCEPT !.set = TRUE, !.pc = pc, !.ret = ret, !.draws = globalDraws]
    /\ ret' = make_sms_summary(args.date_label, args.fun_fact, args.featured_events,
                               args.bostonish_featured, args.rock_featured,
                               args.birthday_hits, args.famous_bdays, args.seed)
    /\ log' = make_sms_parts(args.date_label, args.fun_fact, args.featured_events,
                             args.bostonish_featured, args.rock_featured,
                             args.birthday_hits, args.famous_bdays, args.seed)
    /\ ncalls' = ncalls + 1
    /\ UNCHANGED <<args, globalDraws, store>>

NextSummary == MakeSmsSummary \/ MakeSmsSummaryAgain \/ GlobalRandomChoice

SpecSummary == InitSummary /\ [][NextSummary]_vars

(***************************************************************************)
(* Properties of make_sms_summary.  log holds the sentences of the summary *)
(* in order, ret the text returned.                                        *)
(***************************************************************************)
Composed == pc \in {"returned", "repeated"}

StartsWith(s, prefix) ==
    Len(s) >= Len(prefix) /\ SubSeq(s, 1, Len(prefix)) = prefix

TerminalPunctuation == {".", "!", "?"}

\* the text, with a period when it lacks terminal punctuation
WithPeriod(s) == IF s[Len(s)] \in TerminalPunctuation THEN s ELSE s \o <<".">>

\* C15: the text make_sms_summary returns is non-empty, ends with '.', '!'
\* or '?', and is the non-blank sentences produced, each trimmed, with exactly
\* one space between consecutive sentences and none before the first or after
\* the last.
C15_SentencesJoinedBySpace ==
    Composed =>
        LET kept == SelectSeq(log, LAMBDA p : \E i \in 1..Len(p) : p[i] \notin Whitespace)
        IN  /\ ret # <<>>
            /\ ret[Len(ret)] \in TerminalPunctuation
            /\ ret[1] \notin Whitespace
            /\ ret = Flatten([i \in 1..Len(kept) |->
                                 (IF i = 1 THEN <<>> ELSE <<" ">>) \o strip(kept[i])])
            /\ \A i \in 1..Len(kept) : kept[i][Len(kept[i])] \in TerminalPunctuation

\* a summary of eleven sentences: headline, fun fact, sports, rock, famous
\* birthdays and a family birthday
C15_Witness ==
    /\ pc = "returned"
    /\ Len(log) = 11
    /\ args.birthday_hits # <<>>
    /\ args.fun_fact = <<" ","W","h","y"," ","n","o","t","?"," ">>

\* the names of the hits as the summary gives them
HitNames(hits) ==
    [i \in 1..Len(hits) |->
        IF hits[i].name.kind = "missing" THEN <<"s","o","m","e","o","n","e">> ELSE strip(hits[i].name.s)]

IsCelebration(p) ==
    \/ StartsWith(p, <<"U+1F382"," ","A","n","d"," ","M","O","S","T"," ","i","m","p","o","r","t","a","n","t","l","y",":"," ","h","a","p","p","y"," ","b","i","r","t","h","d","a","y"," ","t","o"," ">>)
    \/ StartsWith(p, <<"U+1F973"," ","B","i","r","t","h","d","a","y"," ","a","l","e","r","t"," ","f","o","r"," ">>)
    \/ StartsWith(p, <<"U+1F389"," ","I","t","U+2019","s"," ">>)
    \/ StartsWith(p, <<"U+1F388"," ","T","o","d","a","y"," ","w","e"," ","c","e","l","e","b","r","a","t","e"," ">>)

IsEverybody(p) == StartsWith(p, <<"E","v","e","r","y","b","o","d","y"," ","s","a","y"," ","h","a","p","p","y"," ","b","i","r","t","h","d","a","y"," ","r","i","g","h","t"," ","n","o","w">>)

IsStealth(p) == StartsWith(p, <<"A","n","d"," ","i","f"," ","i","t","U+2019","s"," ","s","e","c","r","e","t","l","y"," ","y","o","u","r"," ","b","i","r","t","h","d","a","y"," ","a","n","d"," ","y","o","u"," ","d","i","d","n","U+2019","t"," ","t","e","l","l"," ","u","s">>) \/ StartsWith(p, <<"S","t","i","l","l",":"," ","y","o","u"," ","d","e","s","e","r","v","e"," ","a"," ","c","o","o","k","i","e"," ","f","o","r"," ","s","u","r","v","i","v","i","n","g"," ","t","o","d","a","y",".">>)

\* C16: with birthday hits the summary holds one celebratory sentence, one of
\* the fixed four, naming the hits' names joined by the natural-join rule, the
\* sentence 'Everybody say happy birthday right now ...' right after it, and no
\* stealth sentence; without hits it holds the two stealth sentences and no
\* celebratory sentence.
C16_BirthdayBranch ==
    Composed =>
        LET n == Len(log)
            joined == NaturalJoin(NonBlankTrimmed(HitNames(args.birthday_hits)))
            named(p) == \E k \in 1..4 : p = WithPeriod(bday_lines(joined)[k])
        IN  IF args.birthday_hits # <<>>
            THEN /\ Cardinality({i \in 1..n : IsCelebration(log[i])}) = 1
                 /\ \E i \in 1..(n - 1) : named(log[i]) /\ IsEverybody(log[i + 1])
                 /\ Cardinality({i \in 1..n : IsEverybody(log[i])}) = 1
                 /\ \A i \in 1..n : ~IsStealth(log[i])
            ELSE /\ \E i \in 1..(n - 1) :
                        /\ StartsWith(log[i], <<"A","n","d"," ","i","f"," ","i","t","U+2019","s"," ","s","e","c","r","e","t","l","y"," ","y","o","u","r"," ","b","i","r","t","h","d","a","y"," ","a","n","d"," ","y","o","u"," ","d","i","d","n","U+2019","t"," ","t","e","l","l"," ","u","s">>)
                        /\ StartsWith(log[i + 1], <<"S","t","i","l","l",":"," ","y","o","u"," ","d","e","s","e","r","v","e"," ","a"," ","c","o","o","k","i","e"," ","f","o","r"," ","s","u","r","v","i","v","i","n","g"," ","t","o","d","a","y",".">>)
                 /\ \A i \in 1..n : ~IsCelebration(log[i]) /\ ~IsEverybody(log[i])

\* two hits, the second without a "name": "... Zoe Adams and someone ..."
C16_Witness ==
    /\ pc = "returned"
    /\ Len(args.birthday_hits) = 2
    /\ \E i \in 1..Len(log) :
          /\ IsCelebration(log[i])
          /\ Contains(log[i], <<" ","Z","o","e"," ","A","d","a","m","s"," ","a","n","d"," ","s","o","m","e","o","n","e">>)

C18_IndependentChoices ==
    Composed =>
        LET base == make_sms_parts(args.date_label, args.fun_fact, <<>>, <<>>, <<>>,
                                   <<>>, <<>>, args.seed)
            n == Len(log)
        IN  /\ log[1] = base[1]
            /\ log[n - 3] = base[4]
            /\ log[n] = base[7]

\* C20 as stated: the third sentence is the fun fact itself, trimmed, with a
\* period when it lacks one, and a blank fun fact leaves no fun-fact sentence.
C20_FunFactVerbatim ==
    Composed =>
        LET f == strip(args.fun_fact)
        IN  /\ f # <<>> => log[3] = WithPeriod(f)
            /\ f = <<>> => \A i \in 1..Len(log) : ~StartsWith(log[i], <<"D","i","d"," ","y","o","u"," ","k","n","o","w","?">>)

\* C20: the third sentence is 'Did you know? ' followed by the trimmed fun
\* fact, with a period when the fun fact lacks terminal punctuation; for a
\* blank fun fact it is the bare 'Did you know?'.
C20_DidYouKnowLeadIn ==
    Composed =>
        LET f == strip(args.fun_fact)
        IN  log[3] = IF f = <<>> THEN <<"D","i","d"," ","y","o","u"," ","k","n","o","w","?">> ELSE <<"D","i","d"," ","y","o","u"," ","k","n","o","w","?">> \o <<" ">> \o WithPeriod(f)

C20_Witness ==
    /\ pc = "returned"
    /\ args.fun_fact = <<"C","a","k","e"," ","i","s"," ","o","l","d">>
    /\ log[3] = <<"D","i","d"," ","y","o","u"," ","k","n","o","w","?"," ","C","a","k","e"," ","i","s"," ","o","l","d",".">>
    /\ Contains(ret, <<"D","i","d"," ","y","o","u"," ","k","n","o","w","?"," ","C","a","k","e"," ","i","s"," ","o","l","d",".">>)

(***************************************************************************)
(* Page build: the seed render_page derives from the date, the selections  *)
(* html_page makes with it and the summary it has composed.                *)
(***************************************************************************)
EVENTS_SAMPLE_OFFSET == 1
BIRTHS_SAMPLE_OFFSET == 2
SPORTS_SAMPLE_OFFSET == 4
ROCK_SAMPLE_OFFSET == 5
FAMOUS_CARD_OFFSET == 7
FEATURED_N == 6
THEMED_N == 5
FAMOUS_SUMMARY_N == 2
FAMOUS_CARD_N == 6

\* seed = int(f"{month:02d}{day:02d}")
page_seed(month, day) == month * 100 + day

MonthNames ==
    << <<"J","a","n","u","a","r","y">>,
       <<"F","e","b","r","u","a","r","y">>,
       <<"M","a","r","c","h">>,
       <<"A","p","r","i","l">>,
       <<"M","a","y">>,
       <<"J","u","n","e">>,
       <<"J","u","l","y">>,
       <<"A","u","g","u","s","t">>,
       <<"S","e","p","t","e","m","b","e","r">>,
       <<"O","c","t","o","b","e","r">>,
       <<"N","o","v","e","m","b","e","r">>,
       <<"D","e","c","e","m","b","e","r">> >>

\* dt.date(2000, month, day).strftime("%B %d").replace(" 0", " ")
date_label_of(month, day) == MonthNames[month] \o <<" ">> \o decimal(day)

\* a JSON list
JList(items) == [kind |-> "list", n |-> 0, s |-> items]

\* variant: a null value is taken for a list holding one empty record
or_empty_list_nullrecord(v) == IF v.kind = "null" THEN <<NoItem>> ELSE v.s

\* v or []: null and the empty list both give the empty list
or_empty_list(v) == IF v.kind = "null" \/ v.s = <<>> THEN <<>> ELSE v.s

\* the lists html_page selects and the summary, as a record of its locals
\* variant: the summary is composed from all events, not from the sample
html_page_data_unsampled(month, day, onthisday, fun_fact, birthday_hits, sports_keywords, rock_keywords, seed, show_facts) ==
    LET events == IF show_facts THEN or_empty_list(get(onthisday.events, JList(<<>>))) ELSE <<>>
        births == IF show_facts THEN or_empty_list(get(onthisday.births, JList(<<>>))) ELSE <<>>
        featured_events ==
            IF show_facts THEN pick_items(events, FEATURED_N, seed + EVENTS_SAMPLE_OFFSET).val ELSE <<>>
        featured_births ==
            IF show_facts THEN pick_items(births, FEATURED_N, seed + BIRTHS_SAMPLE_OFFSET).val ELSE <<>>
        bostonish_all == IF show_facts THEN filter_keywords(events, sports_keywords) ELSE <<>>
        bostonish_featured ==
            IF show_facts THEN pick_items(bostonish_all, THEMED_N, seed + SPORTS_SAMPLE_OFFSET).val ELSE <<>>
        rockish_all == IF show_facts THEN filter_keywords(events, rock_keywords) ELSE <<>>
        rockish_featured ==
            IF show_facts THEN pick_items(rockish_all, THEMED_N, seed + ROCK_SAMPLE_OFFSET).val ELSE <<>>
        famous_bdays_summary ==
            IF show_facts THEN pick_famous_birthdays(births, seed, FAMOUS_SUMMARY_N).val ELSE <<>>
        famous_bdays_card ==
            IF show_facts THEN pick_famous_birthdays(births, seed + FAMOUS_CARD_OFFSET, FAMOUS_CARD_N).val
            ELSE <<>>
        sms_summary ==
            IF show_facts
            THEN make_sms_summary(date_label_of(month, day), fun_fact, events,
                                  bostonish_featured, rockish_featured, birthday_hits,
                                  famous_bdays_summary, seed)
            ELSE <<>>
        raised ==
            /\ show_facts
            /\ \/ pick_items(events, FEATURED_N, seed + EVENTS_SAMPLE_OFFSET).exc
               \/ pick_items(births, FEATURED_N, seed + BIRTHS_SAMPLE_OFFSET).exc
               \/ pick_items(bostonish_all, THEMED_N, seed + SPORTS_SAMPLE_OFFSET).exc
               \/ pick_items(rockish_all, THEMED_N, seed + ROCK_SAMPLE_OFFSET).exc
               \/ pick_famous_birthdays(births, seed, FAMOUS_SUMMARY_N).exc
               \/ pick_famous_birthdays(births, seed + FAMOUS_CARD_OFFSET, FAMOUS_CARD_N).exc
    IN  [raised |-> raised, events |-> events, births |-> births,
         featured_events |-> featured_events, featured_births |-> featured_births,
         bostonish_all |-> bostonish_all, bostonish_featured |-> bostonish_featured,
         rockish_all |-> rockish_all, rockish_featured |-> rockish_featured,
         famous_bdays_summary |-> famous_bdays_summary,
         famous_bdays_card |-> famous_bdays_card,
         sms_summary |-> sms_summary]

html_page_data(month, day, onthisday, fun_fact, birthday_hits, sports_keywords, rock_keywords, seed, show_facts) ==
    LET events == IF show_facts THEN or_empty_list(get(onthisday.events, JList(<<>>))) ELSE <<>>
        births == IF show_facts THEN or_empty_list(get(onthisday.births, JList(<<>>))) ELSE <<>>
        featured_events ==
            IF show_facts THEN pick_items(events, FEATURED_N, seed + EVENTS_SAMPLE_OFFSET).val ELSE <<>>
        featured_births ==
            IF show_facts THEN pick_items(births, FEATURED_N, seed + BIRTHS_SAMPLE_OFFSET).val ELSE <<>>
        bostonish_all == IF show_facts THEN filter_keywords(events, sports_keywords) ELSE <<>>
        bostonish_featured ==
            IF show_facts THEN pick_items(bostonish_all, THEMED_N, seed + SPORTS_SAMPLE_OFFSET).val ELSE <<>>
        rockish_all == IF show_facts THEN filter_keywords(events, rock_keywords) ELSE <<>>
        rockish_featured ==
            IF show_facts THEN pick_items(rockish_all, THEMED_N, seed + ROCK_SAMPLE_OFFSET).val ELSE <<>>
        famous_bdays_summary ==
            IF show_facts THEN pick_famous_birthdays(births, seed, FAMOUS_SUMMARY_N).val ELSE <<>>
        famous_bdays_card ==
            IF show_facts THEN pick_famous_birthdays(births, seed + FAMOUS_CARD_OFFSET, FAMOUS_CARD_N).val
            ELSE <<>>
        sms_summary ==
            IF show_facts
            THEN make_sms_summary(date_label_of(month, day), fun_fact, featured_events,
                                  bostonish_featured, rockish_featured, birthday_hits,
                                  famous_bdays_summary, seed)
            ELSE <<>>
        raised ==
            /\ show_facts
            /\ \/ pick_items(events, FEATURED_N, seed + EVENTS_SAMPLE_OFFSET).exc
               \/ pick_items(births, FEATURED_N, seed + BIRTHS_SAMPLE_OFFSET).exc
               \/ pick_items(bostonish_all, THEMED_N, seed + SPORTS_SAMPLE_OFFSET).exc
               \/ pick_items(rockish_all, THEMED_N, seed + ROCK_SAMPLE_OFFSET).exc
               \/ pick_famous_birthdays(births, seed, FAMOUS_SUMMARY_N).exc
               \/ pick_famous_birthdays(births, seed + FAMOUS_CARD_OFFSET, FAMOUS_CARD_N).exc
    IN  [raised |-> raised, events |-> events, births |-> births,
         featured_events |-> featured_events, featured_births |-> featured_births,
         bostonish_all |-> bostonish_all, bostonish_featured |-> bostonish_featured,
         rockish_all |-> rockish_all, rockish_featured |-> rockish_featured,
         famous_bdays_summary |-> famous_bdays_summary,
         famous_bdays_card |-> famous_bdays_card,
         sms_summary |-> sms_summary]

\* a picker that got a non-empty list creates its generator: the step and
\* the seed it hands to random.Random
seeded(step, items, seed) ==
    IF items = <<>> THEN <<>> ELSE <<[step |-> step, seed |-> seed]>>

\* the generators created during the build of page p, in creation order
page_generators(p, seed, show_facts) ==
    IF ~show_facts THEN <<>>
    ELSE seeded("events sample", p.events, seed + EVENTS_SAMPLE_OFFSET)
         \o seeded("births sample", p.births, seed + BIRTHS_SAMPLE_OFFSET)
         \o seeded("sports sample", p.bostonish_all, seed + SPORTS_SAMPLE_OFFSET)
         \o seeded("rock sample", p.rockish_all, seed + ROCK_SAMPLE_OFFSET)
         \o seeded("famous birthdays of the summary", p.births, seed + FAMOUS_SEED_OFFSET)
         \o seeded("famous birthdays of the card", p.births,
                   (seed + FAMOUS_CARD_OFFSET) + FAMOUS_SEED_OFFSET)
         \o <<[step |-> "composer templates", seed |-> seed + SUMMARY_SEED_OFFSET]>>
         \o seeded("headline pick", p.featured_events, seed + HEADLINE_PICK_OFFSET)
         \o seeded("sports pick", p.bostonish_featured, seed + SPORTS_PICK_OFFSET)
         \o seeded("rock pick", p.rockish_featured, seed + ROCK_PICK_OFFSET)

\* dates of the page (month, day)
PageDates == {<<5, 14>>, <<1, 1>>, <<1, 2>>, <<12, 25>>}

\* the "On this day" payload: no entries; keys missing or null; a few
\* entries; more events than are featured
Payloads ==
    { [events |-> JList(<<>>), births |-> JList(<<>>)],
      [events |-> JMissing, births |-> JNull],
      [events |-> JNull, births |-> JMissing],
      [events |-> JList(<<ItAttack, ItRedSox, ItFestival>>), births |-> JList(<<Births[1], Births[3]>>)],
      [events |-> JList(<<ItAttack, ItEdward, ItWonWar, ItBlank, ItAttack, ItEdward, ItWon>>),
       births |-> JList(<<Births[1], Births[2], Births[3], Births[4], Births[5]>>)],
      [events |-> JList(<<ItNeutral>>), births |-> JList(<<>>)] }

InitPage ==
    /\ pc = "idle"
    /\ args \in [month : {d[1] : d \in PageDates}, day : {d[2] : d \in PageDates},
                 onthisday : Payloads,
                 fun_fact : {<<>>, <<"C","a","k","e"," ","i","s"," ","o","l","d">>},
                 birthday_hits : {<<>>, <<PZoeAdams>>},
                 sports_keywords : {<<>>, <<<<"r","e","d"," ","s","o","x">>, <<"b","o","s","t","o","n">>>>},
                 rock_keywords : {<<<<"r","o","c","k">>>>},
                 show_facts : BOOLEAN]
    /\ <<args.month, args.day>> \in PageDates
    /\ ret = <<>>
    /\ first = NoCall
    /\ ncalls = 0
    /\ globalDraws = 0
    /\ log = <<>>
    /\ store = <<>>

\* render_page derives the seed from the date and html_page builds the page
BuildPage ==
    /\ pc = "idle"
    /\ pc' = "built"
    /\ LET seed == page_seed(args.month, args.day)
           p == html_page_data(args.month, args.day, args.onthisday, args.fun_fact,
                               args.birthday_hits, args.sports_keywords, args.rock_keywords,
                               seed, args.show_facts)
       IN  /\ ret' = p
           /\ log' = page_generators(p, seed, args.show_facts)
    /\ ncalls' = ncalls + 1
    /\ UNCHANGED <<args, first, globalDraws, store>>

SpecPage == InitPage /\ [][BuildPage]_vars

(***************************************************************************)
(* Properties of the page build.  log holds the generators created.        *)
(***************************************************************************)
\* C19: within one page build every selection step seeds its generator with
\* seed + k, seed = month * 100 + day, for a k no other selection step uses.
C19_DistinctOffsets ==
    pc = "built" =>
        LET seed == args.month * 100 + args.day
        IN  \A i, j \in 1..Len(log) :
                /\ log[i].seed >= seed
                /\ log[i].seed = log[j].seed => i = j

(***************************************************************************)
(* Sentence normalisation: sentence applied to one text, then to its own   *)
(* result.                                                                 *)
(***************************************************************************)
SentenceChars == {"a", " ", ".", "!", "?"}

InitSentence ==
    /\ pc = "idle"
    /\ args \in [s : SeqsUpTo(SentenceChars, MaxTextLen + 1)]
    /\ ret = <<>>
    /\ first = NoCall
    /\ ncalls = 0
    /\ globalDraws = 0
    /\ log = <<>>
    /\ store = <<>>

Sentence ==
    /\ pc = "idle"
    /\ pc' = "returned"
    /\ ret' = sentence(args.s)
    /\ ncalls' = ncalls + 1
    /\ UNCHANGED <<args, first, globalDraws, log, store>>

\* sentence(sentence(s))
SentenceAgain ==
    /\ pc = "returned"
    /\ pc' = "renormalised"
    /\ first' = [NoCall EXCEPT !.set = TRUE, !.pc = pc, !.ret = ret]
    /\ ret' = sentence(ret)
    /\ ncalls' = ncalls + 1
    /\ UNCHANGED <<args, globalDraws, log, store>>

NextSentence == Sentence \/ SentenceAgain

SpecSentence == InitSentence /\ [][NextSentence]_vars

\* the text without the white space around it
Trimmed(s) ==
    LET solid == {i \in 1..Len(s) : s[i] \notin Whitespace}
    IN  IF solid = {} THEN <<>>
        ELSE SubSeq(s, CHOOSE i \in solid : \A j \in solid : i <= j,
                       CHOOSE i \in solid : \A j \in solid : j <= i)

\* C28: sentence(s) is the trimmed text, with a period appended only when it
\* does not end in '.', '!' or '?', and the empty string for a blank s; a
\* non-empty result ends in terminal punctuation with no white space after it,
\* and sentence(sentence(s)) = sentence(s).
C28_SentenceIdempotent ==
    LET t == Trimmed(args.s)
        once == IF pc = "renormalised" THEN first.ret ELSE ret
    IN  /\ pc \in {"returned", "renormalised"} =>
              /\ t = <<>> => once = <<>>
              /\ (t # <<>> /\ t[Len(t)] \in TerminalPunctuation) => once = t
              /\ (t # <<>> /\ t[Len(t)] \notin TerminalPunctuation) => once = t \o <<".">>
              /\ once # <<>> => once[Len(once)] \in TerminalPunctuation
        /\ pc = "renormalised" => ret = first.ret

\* " a!" is trimmed and gets no period, and normalising "a!" again changes nothing
C28_Witness ==
    /\ pc = "renormalised"
    /\ args.s = <<" ", "a", "!">>
    /\ ret = <<"a", "!">>

(***************************************************************************)
(* Properties of the page build: what the summary quotes.                  *)
(***************************************************************************)
GenericHeadlineLead == <<"O","n"," ","t","h","i","s"," ","d","a","y"," ","i","n"," ","h","i","s","t","o","r","y",":">>
SportsLead == <<"B","o","s","t","o","n"," ","s","p","o","r","t","s"," ","c","o","r","n","e","r">>
RockLead == <<"C","l","a","s","s","i","c"," ","r","o","c","k"," ","t","i","m","e"," ","m","a","c","h","i","n","e">>
FamousLead == <<"F","a","m","o","u","s"," ","b","i","r","t","h","d","a","y"," ","r","o","l","l"," ","c","a","l","l",":">>
StealthLead == <<"A","n","d"," ","i","f"," ","i","t","U+2019","s"," ","s","e","c","r","e","t","l","y"," ","y","o","u","r"," ","b","i","r","t","h","d","a","y">>
CookieLead == <<"S","t","i","l","l",":"," ","y","o","u"," ","d","e","s","e","r","v","e"," ","a"," ","c","o","o","k","i","e">>

NoEntries(v) == v.kind \in {"missing", "null"} \/ (v.kind = "list" /\ v.s = <<>>)

Built == pc = "built" /\ args.show_facts

\* C21: built from a payload whose events and births are empty, missing or
\* null and with no birthday hits, the page build raises nothing, every
\* sampled, filtered and famous-birthday list is empty, and the summary has
\* the generic headline, no sports, music or famous-birthday sentence, and
\* the two stealth-birthday sentences.
C21_EmptyDataDegrades ==
    (/\ Built
     /\ NoEntries(args.onthisday.events)
     /\ NoEntries(args.onthisday.births)
     /\ args.birthday_hits = <<>>) =>
        /\ ~ret.raised
        /\ \A f \in {"featured_events", "featured_births", "bostonish_all", "bostonish_featured",
                     "rockish_all", "rockish_featured", "famous_bdays_summary",
                     "famous_bdays_card"} : ret[f] = <<>>
        /\ Contains(ret.sms_summary, GenericHeadlineLead)
        /\ ~Contains(ret.sms_summary, SportsLead)
        /\ ~Contains(ret.sms_summary, RockLead)
        /\ ~Contains(ret.sms_summary, FamousLead)
        /\ Contains(ret.sms_summary, StealthLead)
        /\ Contains(ret.sms_summary, CookieLead)

\* the events key is missing, the births key is null, and the summary is composed
C21_Witness ==
    /\ Built
    /\ args.onthisday.events = JMissing
    /\ args.onthisday.births = JNull
    /\ args.birthday_hits = <<>>
    /\ Contains(ret.sms_summary, StealthLead)

\* the sentences that quote an item
HeadlineOf(it) ==
    LET yt == extract_year_text(it)
    IN  <<"O","n"," ","t","h","i","s"," ","d","a","y"," ","i","n"," ">> \o yt.year \o <<":", " ">> \o yt.text

ThemedOf(lead, it) ==
    LET yt == extract_year_text(it)
    IN  lead \o <<":", " ">> \o yt.year \o <<" ", "U+2014", " ">> \o yt.text

BlankOrNegative(it) ==
    LET t == extract_year_text(it).text
    IN  t = <<>> \/ any_hint_in(NEGATIVE_HINTS, lower(t))

\* C27: the headline of the summary is the generic one or quotes a member of
\* featured_events, a sports sentence quotes a member of bostonish_featured
\* and a rock sentence a member of rockish_featured; no event outside
\* featured_events is quoted in the headline; and the headline is the
\* generic one whenever every sampled event is blank or negative.
C27_SummaryQuotesTheCards ==
    Built =>
        /\ \/ Contains(ret.sms_summary, GenericHeadlineLead)
           \/ \E i \in DOMAIN ret.featured_events :
                  Contains(ret.sms_summary, HeadlineOf(ret.featured_events[i]))
        /\ \A i \in DOMAIN ret.events :
               Contains(ret.sms_summary, HeadlineOf(ret.events[i])) =>
                   \E j \in DOMAIN ret.featured_events :
                       extract_year_text(ret.featured_events[j]) = extract_year_text(ret.events[i])
        /\ Contains(ret.sms_summary, SportsLead) =>
               \E i \in DOMAIN ret.bostonish_featured :
                   Contains(ret.sms_summary, ThemedOf(SportsLead, ret.bostonish_featured[i]))
        /\ Contains(ret.sms_summary, RockLead) =>
               \E i \in DOMAIN ret.rockish_featured :
                   Contains(ret.sms_summary, ThemedOf(RockLead, ret.rockish_featured[i]))
        /\ (\A i \in DOMAIN ret.featured_events : BlankOrNegative(ret.featured_events[i])) =>
               Contains(ret.sms_summary, GenericHeadlineLead)

\* the only positive event is left out of the sample of six, and the
\* headline is the generic one
C27_Witness ==
    /\ Built
    /\ \E i \in DOMAIN ret.events : ret.events[i] = ItWon
    /\ Len(ret.featured_events) = FEATURED_N
    /\ \A i \in DOMAIN ret.featured_events : ret.featured_events[i] # ItWon
    /\ Contains(ret.sms_summary, GenericHeadlineLead)

(***************************************************************************)
(* Basic authentication of the web route.                                  *)
(***************************************************************************)
\* the characters of code points 0 to 127, in order (those that a string
\* cannot hold are written as their code point)
Ascii == <<"U+0000","U+0001","U+0002","U+0003","U+0004","U+0005","U+0006","U+0007","U+0008","U+0009","U+000A","U+000B","U+000C","U+000D","U+000E","U+000F","U+0010","U+0011","U+0012","U+0013","U+0014","U+0015","U+0016","U+0017","U+0018","U+0019","U+001A","U+001B","U+001C","U+001D","U+001E","U+001F"," ","!","U+0022","#","$","%","&","'","(",")","*","+",",","-",".","/","0","1","2","3","4","5","6","7","8","9",":",";","<","=",">","?","@","A","B","C","D","E","F","G","H","I","J","K","L","M","N","O","P","Q","R","S","T","U","V","W","X","Y","Z","[","U+005C","]","^","_","U+0060","a","b","c","d","e","f","g","h","i","j","k","l","m","n","o","p","q","r","s","t","u","v","w","x","y","z","{","|","}","~","U+007F">>

\* ord(c), for a character of code point below 128
code_point(c) == (CHOOSE i \in 1..Len(Ascii) : Ascii[i] = c) - 1

B64Alphabet == <<"A","B","C","D","E","F","G","H","I","J","K","L","M","N","O","P","Q","R","S","T","U","V","W","X","Y","Z","a","b","c","d","e","f","g","h","i","j","k","l","m","n","o","p","q","r","s","t","u","v","w","x","y","z","0","1","2","3","4","5","6","7","8","9","+","/">>

b64_value(c) == (CHOOSE i \in 1..Len(B64Alphabet) : B64Alphabet[i] = c) - 1

IsB64(c) == \E i \in 1..Len(B64Alphabet) : B64Alphabet[i] = c

\* binascii.a2b_base64 without strict mode: a character outside the alphabet
\* is skipped, a complete run of '=' ends the parse, and left-over sextets
\* are an error.  The result is the list of bytes.
RECURSIVE a2b_base64(_, _, _, _, _)
a2b_base64(s, quad_pos, leftchar, pads, out) ==
    IF s = <<>>
    THEN [exc |-> quad_pos # 0, val |-> out]
    ELSE LET c == Head(s)
         IN  IF c = "="
             THEN IF quad_pos >= 2 /\ quad_pos + pads + 1 >= 4
                  THEN [exc |-> FALSE, val |-> out]
                  ELSE a2b_base64(Tail(s), quad_pos, leftchar,
                                  IF quad_pos >= 2 THEN pads + 1 ELSE pads, out)
             ELSE IF ~IsB64(c)
             THEN a2b_base64(Tail(s), quad_pos, leftchar, pads, out)
             ELSE LET v == b64_value(c)
                  IN  CASE quad_pos = 0 -> a2b_base64(Tail(s), 1, v, 0, out)
                        [] quad_pos = 1 ->
                             a2b_base64(Tail(s), 2, v % 16, 0, Append(out, leftchar * 4 + v \div 16))
                        [] quad_pos = 2 ->
                             a2b_base64(Tail(s), 3, v % 4, 0, Append(out, leftchar * 16 + v \div 4))
                        [] quad_pos = 3 ->
                             a2b_base64(Tail(s), 0, 0, 0, Append(out, leftchar * 64 + v))

\* variant: strict decoding, any character outside the alphabet is an error
b64decode_strict(s) ==
    IF \E i \in 1..Len(s) : ~IsB64(s[i]) /\ s[i] # "="
    THEN [exc |-> TRUE, val |-> <<>>]
    ELSE a2b_base64(s, 0, 0, 0, <<>>)

\* base64.b64decode(s) with its default validate=False; a str holding a
\* character above code point 127 is refused
b64decode(s) ==
    IF \E i \in 1..Len(s) : ~\E k \in 1..Len(Ascii) : Ascii[k] = s[i]
    THEN [exc |-> TRUE, val |-> <<>>]
    ELSE a2b_base64(s, 0, 0, 0, <<>>)

\* bytes.decode("utf-8") of bytes below 0x80; a byte from 0x80 on belongs to
\* a multi-byte character, which no credential of the model holds, and is
\* reported as undecodable
utf8_decode(bytes) ==
    IF \E i \in 1..Len(bytes) : bytes[i] >= 128
    THEN [exc |-> TRUE, val |-> <<>>]
    ELSE [exc |-> FALSE, val |-> [i \in 1..Len(bytes) |-> Ascii[bytes[i] + 1]]]

\* decoded.split(":", 1) unpacked into user, pw
split_user_pw(decoded) ==
    IF ~\E i \in 1..Len(decoded) : decoded[i] = ":"
    THEN [exc |-> TRUE, user |-> <<>>, pw |-> <<>>]
    ELSE LET i == CHOOSE k \in 1..Len(decoded) :
                      decoded[k] = ":" /\ \A j \in 1..(k - 1) : decoded[j] # ":"
         IN  [exc |-> FALSE, user |-> SubSeq(decoded, 1, i - 1),
              pw |-> SubSeq(decoded, i + 1, Len(decoded))]

\* base64.b64encode of an ASCII text, used to write the headers
RECURSIVE b64encode(_)
b64encode(t) ==
    LET b(i) == code_point(t[i])
        a(v) == B64Alphabet[v + 1]
    IN  CASE Len(t) = 0 -> <<>>
          [] Len(t) = 1 -> <<a(b(1) \div 4), a((b(1) % 4) * 16), "=", "=">>
          [] Len(t) = 2 ->
               <<a(b(1) \div 4), a((b(1) % 4) * 16 + b(2) \div 16), a((b(2) % 16) * 4), "=">>
          [] OTHER ->
               <<a(b(1) \div 4), a((b(1) % 4) * 16 + b(2) \div 16),
                 a((b(2) % 16) * 4 + b(3) \div 64), a(b(3) % 64)>>
               \o b64encode(SubSeq(t, 4, Len(t)))

BasicPrefix == <<"B","a","s","i","c"," ">>

\* the responses of the route: status, WWW-Authenticate header, what the body is
Refusal(status, challenge, text) ==
    [none |-> FALSE, status |-> status, www_authenticate |-> challenge, body |-> text]

NoRefusal == [none |-> TRUE, status |-> 0, www_authenticate |-> FALSE, body |-> <<>>]

\* variant: the password is not compared
basic_auth_required_user_only(expected_user, expected_pass, auth) ==
    IF expected_user = <<>> \/ expected_pass = <<>>
    THEN Refusal(500, FALSE, "Server misconfigured")
    ELSE IF ~StartsWith(auth, BasicPrefix)
    THEN Refusal(401, TRUE, "Auth required")
    ELSE LET raw == b64decode(SubSeq(auth, Len(BasicPrefix) + 1, Len(auth)))
             decoded == IF raw.exc THEN raw ELSE utf8_decode(raw.val)
             parts == IF decoded.exc THEN [exc |-> TRUE, user |-> <<>>, pw |-> <<>>]
                      ELSE split_user_pw(decoded.val)
         IN  IF parts.exc THEN Refusal(401, TRUE, "Bad auth header")
             ELSE IF parts.user # expected_user
             THEN Refusal(401, TRUE, "Unauthorized")
             ELSE NoRefusal

\* _basic_auth_required(): None, or the response that ends the request
basic_auth_required(expected_user, expected_pass, auth) ==
    IF expected_user = <<>> \/ expected_pass = <<>>
    THEN Refusal(500, FALSE, "Server misconfigured")
    ELSE IF ~StartsWith(auth, BasicPrefix)
    THEN Refusal(401, TRUE, "Auth required")
    ELSE LET raw == b64decode(SubSeq(auth, Len(BasicPrefix) + 1, Len(auth)))
             decoded == IF raw.exc THEN raw ELSE utf8_decode(raw.val)
             parts == IF decoded.exc THEN [exc |-> TRUE, user |-> <<>>, pw |-> <<>>]
                      ELSE split_user_pw(decoded.val)
         IN  IF parts.exc THEN Refusal(401, TRUE, "Bad auth header")
             ELSE IF parts.user # expected_user \/ parts.pw # expected_pass
             THEN Refusal(401, TRUE, "Unauthorized")
             ELSE NoRefusal

(***************************************************************************)
(* Calendar highlight index: build_birthday_index applied to one list of   *)
(* birthdays.json records.  The dict is the sequence of its entries        *)
(* [key, names] in insertion order.                                        *)
(***************************************************************************)
\* f"{n:02d}" for n >= 0
two_digits(n) == IF n < 10 THEN <<"0">> \o decimal(n) ELSE decimal(n)

index_key(m, d) == two_digits(m) \o <<"-">> \o two_digits(d)

\* idx.setdefault(key, []).append(name)
setdefault_append(idx, key, name) ==
    IF \E i \in DOMAIN idx : idx[i].key = key
    THEN [i \in DOMAIN idx |->
             IF idx[i].key = key THEN [idx[i] EXCEPT !.names = Append(@, name)] ELSE idx[i]]
    ELSE Append(idx, [key |-> key, names |-> <<name>>])

\* sorted(names, key=lambda s: s.lower()), stable
RECURSIVE insert_by_lower(_, _)
insert_by_lower(seq, x) ==
    IF seq = <<>> THEN <<x>>
    ELSE IF str_lt(lower(x), lower(seq[Len(seq)]))
         THEN Append(insert_by_lower(SubSeq(seq, 1, Len(seq) - 1), x), seq[Len(seq)])
         ELSE Append(seq, x)

RECURSIVE sorted_by_lower(_, _)
sorted_by_lower(rest, acc) ==
    IF rest = <<>> THEN acc
    ELSE sorted_by_lower(Tail(rest), insert_by_lower(acc, Head(rest)))

\* variant: a record of blank name is listed too
RECURSIVE index_loop_blank(_, _)
index_loop_blank(birthdays, idx) ==
    IF birthdays = <<>> THEN idx
    ELSE LET b == Head(birthdays)
             m == safe_int(get(b.month, JNull))
             d == safe_int(get(b.day, JNull))
             name == strip(py_str(get(b.name, JStr(<<>>))))
         IN  IF m <= 0 \/ d <= 0 \/ m > 12 \/ d > 31
             THEN index_loop_blank(Tail(birthdays), idx)
             ELSE index_loop_blank(Tail(birthdays), setdefault_append(idx, index_key(m, d), name))

\* the loop over the records
RECURSIVE index_loop(_, _)
index_loop(birthdays, idx) ==
    IF birthdays = <<>> THEN idx
    ELSE LET b == Head(birthdays)
             m == safe_int(get(b.month, JNull))
             d == safe_int(get(b.day, JNull))
             name == strip(py_str(get(b.name, JStr(<<>>))))
         IN  IF m <= 0 \/ d <= 0 \/ m > 12 \/ d > 31
             THEN index_loop(Tail(birthdays), idx)
             ELSE IF name = <<>>
             THEN index_loop(Tail(birthdays), idx)
             ELSE index_loop(Tail(birthdays), setdefault_append(idx, index_key(m, d), name))

build_birthday_index(birthdays) ==
    LET idx == index_loop(birthdays, <<>>)
    IN  [i \in DOMAIN idx |-> [idx[i] EXCEPT !.names = sorted_by_lower(@, <<>>)]]

\* records of the indexed birthdays.json: month 13, a blank name, another date
PDeeThirteen == Person(JStr(<<"D","e","e">>), JInt(13), JInt(14))
PBlankName == Person(JStr(<<" ">>), JInt(5), JInt(14))
PBoNewYearsEve == Person(JStr(<<"B","o">>), JStr(<<"1","2">>), JInt(31))

IndexPool == {PZoeAdams, PamyZane, PAmyZane, PCyMoe, PDeeThirteen, PBlankName, PBoNewYearsEve}

InitIndex ==
    /\ pc = "idle"
    /\ args \in [birthdays : SeqsUpTo(IndexPool, MaxRecords)]
    /\ ret = <<>>
    /\ first = NoCall
    /\ ncalls = 0
    /\ globalDraws = 0
    /\ log = <<>>
    /\ store = <<>>

BuildBirthdayIndex ==
    /\ pc = "idle"
    /\ pc' = "indexed"
    /\ ret' = build_birthday_index(args.birthdays)
    /\ ncalls' = ncalls + 1
    /\ UNCHANGED <<args, first, globalDraws, log, store>>

SpecIndex == InitIndex /\ [][BuildBirthdayIndex]_vars

(***************************************************************************)
(* Properties of the index.                                                *)
(***************************************************************************)
Months == 1..12
Days == 1..31

TrimmedName(b) == strip(py_str(get(b.name, JStr(<<>>))))

HasName(b) == TrimmedName(b) # <<>>

\* the names of the matcher's records that have one
NamedHits(month, day) ==
    LET hits == SelectSeq(birthdays_for_date(args.birthdays, month, day), HasName)
    IN  [i \in DOMAIN hits |-> TrimmedName(hits[i])]

Occurrences(x, seq) == Cardinality({i \in DOMAIN seq : seq[i] = x})

SameMultiset(a, b) ==
    /\ Len(a) = Len(b)
    /\ \A i \in DOMAIN a : Occurrences(a[i], a) = Occurrences(a[i], b)

SortedIgnoringCase(names) ==
    \A i \in 1..(Len(names) - 1) : ~str_lt(lower(names[i + 1]), lower(names[i]))

\* C29: for every month in 1..12 and day in 1..31 the index has the key
\* "MM-DD" exactly when birthdays_for_date returns a record with a non-blank
\* name; the names under the key are the trimmed non-blank names of those
\* records as a multiset, in case-insensitive order; and the index has no
\* other key.
C29_IndexAgreesWithMatcher ==
    pc = "indexed" =>
        /\ \A m \in Months, d \in Days :
               LET names == NamedHits(m, d)
                   under == {i \in DOMAIN ret : ret[i].key = index_key(m, d)}
               IN  /\ Cardinality(under) = (IF names = <<>> THEN 0 ELSE 1)
                   /\ \A i \in under :
                          /\ SameMultiset(ret[i].names, names)
                          /\ SortedIgnoringCase(ret[i].names)
        /\ \A i \in DOMAIN ret : \E m \in Months, d \in Days : ret[i].key = index_key(m, d)

\* two records of 14 May (one with the month 5.9) are listed under "05-14" in
\* case-insensitive order; the record of month 13 has no key
C29_Witness ==
    /\ pc = "indexed"
    /\ args.birthdays = <<PZoeAdams, PDeeThirteen, PamyZane>>
    /\ ret = <<[key |-> <<"0","5","-","1","4">>, names |-> <<<<"a","m","y"," ","z","a","n","e">>, <<"Z","o","e"," ","A","d","a","m","s">>>>]>>

(***************************************************************************)
(* Command-line edits of birthdays.json (this_day_page.py): store is the   *)
(* list of records in the file.                                            *)
(***************************************************************************)
IsDigit(c) == \E i \in 1..Len(Digits) : Digits[i] = c

\* "".join(ch for ch in s if ch.isdigit())
digits_of(s) == SelectSeq(s, IsDigit)

normalize_phone(s) ==
    LET digits == digits_of(s)
    IN  IF Len(digits) = 10
        THEN SubSeq(digits, 1, 3) \o <<"-">> \o SubSeq(digits, 4, 6) \o <<"-">> \o SubSeq(digits, 7, 10)
        ELSE strip(s)

\* the truth value of a JSON value
truthy(v) ==
    CASE v.kind \in {"missing", "null"} -> FALSE
      [] v.kind = "str" -> v.s # <<>>
      [] OTHER -> v.n # 0

\* str(b.get("phone", "")).strip()
phone_text(b) == strip(py_str(get(b.phone, JStr(<<>>))))

\* load_birthdays: every non-empty phone is rewritten in its normal form
load_birthdays(data) ==
    [i \in DOMAIN data |->
        IF truthy(data[i].phone)
        THEN [data[i] EXCEPT !.phone = JStr(normalize_phone(phone_text(data[i])))]
        ELSE data[i]]

\* str(b.get("name", "")).strip().lower()
name_key(b) == lower(strip(py_str(get(b.name, JStr(<<>>)))))

FirstIndex(S) == CHOOSE i \in S : \A j \in S : i <= j

\* variant: the update trims relation and note as the insertion does
add_or_update_person_trimmed(data, name, month, day, relation, note, phone) ==
    LET birthdays == load_birthdays(data)
        norm_name == lower(strip(name))
        phone_norm == IF phone # <<>> THEN normalize_phone(phone) ELSE <<>>
        found == {i \in DOMAIN birthdays : name_key(birthdays[i]) = norm_name}
    IN  IF found # {}
        THEN LET i == FirstIndex(found)
                 b0 == birthdays[i]
                 b1 == [b0 EXCEPT !.month = JInt(month), !.day = JInt(day)]
                 b2 == IF strip(relation) # <<>> THEN [b1 EXCEPT !.relation = JStr(strip(relation))] ELSE b1
                 b3 == IF strip(note) # <<>> THEN [b2 EXCEPT !.note = JStr(strip(note))] ELSE b2
                 b4 == IF phone_norm # <<>> THEN [b3 EXCEPT !.phone = JStr(phone_norm)] ELSE b3
             IN  [birthdays EXCEPT ![i] = b4]
        ELSE Append(birthdays,
                    [name |-> JStr(strip(name)), month |-> JInt(month), day |-> JInt(day),
                     relation |-> JStr(strip(relation)), note |-> JStr(strip(note)),
                     phone |-> JStr(phone_norm)])

\* the file after add_or_update_person
add_or_update_person(data, name, month, day, relation, note, phone) ==
    LET birthdays == load_birthdays(data)
        norm_name == lower(strip(name))
        phone_norm == IF phone # <<>> THEN normalize_phone(phone) ELSE <<>>
        found == {i \in DOMAIN birthdays : name_key(birthdays[i]) = norm_name}
    IN  IF found # {}
        THEN LET i == FirstIndex(found)
                 b0 == birthdays[i]
                 b1 == [b0 EXCEPT !.month = JInt(month), !.day = JInt(day)]
                 b2 == IF relation # <<>> THEN [b1 EXCEPT !.relation = JStr(relation)] ELSE b1
                 b3 == IF note # <<>> THEN [b2 EXCEPT !.note = JStr(note)] ELSE b2
                 b4 == IF phone_norm # <<>> THEN [b3 EXCEPT !.phone = JStr(phone_norm)] ELSE b3
             IN  [birthdays EXCEPT ![i] = b4]
        ELSE Append(birthdays,
                    [name |-> JStr(strip(name)), month |-> JInt(month), day |-> JInt(day),
                     relation |-> JStr(strip(relation)), note |-> JStr(strip(note)),
                     phone |-> JStr(phone_norm)])

\* variant: only the first record of the phone is cleared
remove_phone_from_people_first(data, phone) ==
    LET birthdays == load_birthdays(data)
        target_digits == digits_of(phone)
        found == {i \in DOMAIN birthdays :
                     digits_of(phone_text(birthdays[i])) = target_digits /\ target_digits # <<>>}
    IN  IF found = {} THEN birthdays
        ELSE [birthdays EXCEPT ![FirstIndex(found)].phone = JStr(<<>>)]

\* the file after remove_phone_from_people
remove_phone_from_people(data, phone) ==
    LET birthdays == load_birthdays(data)
        target_digits == digits_of(phone)
    IN  [i \in DOMAIN birthdays |->
            IF digits_of(phone_text(birthdays[i])) = target_digits /\ target_digits # <<>>
            THEN [birthdays[i] EXCEPT !.phone = JStr(<<>>)]
            ELSE birthdays[i]]

Unknown == <<"U","n","k","n","o","w","n">>

\* variant: a stub is appended whether or not the phone is known
add_phone_stub_always(data, phone, label) ==
    LET birthdays == load_birthdays(data)
        phone_norm == normalize_phone(phone)
    IN  Append(birthdays,
               [name |-> JStr(IF strip(label) # <<>> THEN strip(label) ELSE Unknown),
                month |-> JInt(1), day |-> JInt(1), relation |-> JStr(<<>>),
                note |-> JStr(<<>>), phone |-> JStr(phone_norm)])

\* the file after add_phone_stub
add_phone_stub(data, phone, label) ==
    LET birthdays == load_birthdays(data)
        phone_norm == normalize_phone(phone)
        digits == digits_of(phone_norm)
        found == {i \in DOMAIN birthdays :
                     digits_of(normalize_phone(phone_text(birthdays[i]))) = digits /\ digits # <<>>}
    IN  IF found # {}
        THEN LET i == FirstIndex(found)
                 b1 == IF label # <<>> THEN [birthdays[i] EXCEPT !.name = JStr(strip(label))]
                       ELSE birthdays[i]
             IN  [birthdays EXCEPT ![i] = [b1 EXCEPT !.phone = JStr(phone_norm)]]
        ELSE Append(birthdays,
                    [name |-> JStr(IF strip(label) # <<>> THEN strip(label) ELSE Unknown),
                     month |-> JInt(1), day |-> JInt(1), relation |-> JStr(<<>>),
                     note |-> JStr(<<>>), phone |-> JStr(phone_norm)])

\* the de-duplication by digits: the first entry of every non-empty digit string
RECURSIVE uniq_phones(_, _)
uniq_phones(out, uniq) ==
    IF out = <<>> THEN uniq
    ELSE LET d == digits_of(Head(out).phone)
         IN  IF d # <<>> /\ \A i \in DOMAIN uniq : digits_of(uniq[i].phone) # d
             THEN uniq_phones(Tail(out), Append(uniq, Head(out)))
             ELSE uniq_phones(Tail(out), uniq)

people_to_phone_list(birthdays) ==
    LET entry(b) == [phone |-> normalize_phone(phone_text(b)),
                     label |-> strip(py_str(get(b.name, JStr(<<>>))))]
        HasPhone(b) == normalize_phone(phone_text(b)) # <<>>
        with_phone == SelectSeq(birthdays, HasPhone)
    IN  uniq_phones([i \in DOMAIN with_phone |-> entry(with_phone[i])], <<>>)

\* records of the edited birthdays.json: two records of one phone, the first
\* with the phone as typed by hand; a ten-digit phone typed without dashes;
\* a record without phone
PeopleRecords ==
    << [name |-> JStr(<<"A","l">>), month |-> JInt(5), day |-> JInt(14), relation |-> JStr(<<"D","a","d">>),
        note |-> JMissing, phone |-> JStr(<<" ","5","0","8","5","5","5","1","2","3","4">>)],
       [name |-> JStr(<<"B","o">>), month |-> JInt(12), day |-> JInt(25), relation |-> JMissing,
        note |-> JMissing, phone |-> JStr(<<"5","0","8","-","5","5","5","-","1","2","3","4">>)],
       [name |-> JStr(<<"C","y">>), month |-> JInt(7), day |-> JInt(10), relation |-> JMissing,
        note |-> JStr(<<"x">>), phone |-> JStr(<<"6","1","7","5","5","5","0","0","0","0">>)],
       [name |-> JStr(<<"D","i">>), month |-> JInt(1), day |-> JInt(1), relation |-> JMissing,
        note |-> JMissing, phone |-> JMissing] >>

\* the arguments of the calls
NoEdit ==
    [op |-> "none", name |-> <<>>, month |-> 0, day |-> 0, relation |-> <<>>, note |-> <<>>,
     phone |-> <<>>, label |-> <<>>]

AddBirthdayArgs ==
    { [NoEdit EXCEPT !.op = "add_or_update_person", !.name = n, !.month = d[1], !.day = d[2],
                     !.relation = r, !.phone = d[3]] :
        n \in {<<" ","A","L"," ">>, <<"E","d">>},
        d \in {<<7, 10, <<>> >>, <<1, 2, <<"7","7","4","5","5","5","0","0","0","0">>>>},
        r \in {<<>>, <<" ","M","o","m"," ">>} }

PhoneArgs == {<<"(","5","0","8",")"," ","5","5","5","-","1","2","3","4">>, <<"n","/","a">>}

LabelArgs == {<<>>, <<" ","F","l","o"," ">>}

InitPeople ==
    /\ pc = "idle"
    /\ args = NoEdit
    /\ ret = <<>>
    /\ first = NoCall
    /\ ncalls = 0
    /\ globalDraws = 0
    /\ log = <<>>
    /\ store \in DistinctSeqsUpTo(PeopleRecords, MaxRecords)

\* what the call of args does to the file
edited(data, a) ==
    CASE a.op = "add_or_update_person" ->
             add_or_update_person(data, a.name, a.month, a.day, a.relation, a.note, a.phone)
      [] a.op = "remove_phone_from_people" -> remove_phone_from_people(data, a.phone)
      [] a.op = "add_phone_stub" -> add_phone_stub(data, a.phone, a.label)

\* main() run with the options of a: log lists the calls, first keeps the
\* file as it was before the call
Edit(a) ==
    /\ pc \in {"idle", "called"}
    /\ ncalls < MaxCalls
    /\ pc' = "called"
    /\ args' = a
    /\ first' = [NoCall EXCEPT !.set = TRUE, !.ret = store]
    /\ store' = edited(store, a)
    /\ log' = Append(log, a.op)
    /\ ncalls' = ncalls + 1
    /\ UNCHANGED <<ret, globalDraws>>

AddOrUpdatePerson == \E a \in AddBirthdayArgs : Edit(a)

RemovePhoneFromPeople ==
    \E ph \in PhoneArgs : Edit([NoEdit EXCEPT !.op = "remove_phone_from_people", !.phone = ph])

AddPhoneStub ==
    \E ph \in PhoneArgs, l \in LabelArgs :
        Edit([NoEdit EXCEPT !.op = "add_phone_stub", !.phone = ph, !.label = l])

\* the same command line once more
RepeatEdit ==
    /\ pc = "called"
    /\ pc' = "repeated"
    /\ first' = [NoCall EXCEPT !.set = TRUE, !.ret = store]
    /\ store' = edited(store, args)
    /\ UNCHANGED <<args, ret, ncalls, globalDraws, log>>

NextPeople == AddOrUpdatePerson \/ RemovePhoneFromPeople \/ AddPhoneStub \/ RepeatEdit

SpecPeople == InitPeople /\ [][NextPeople]_vars

(***************************************************************************)
(* Properties of the edits.  first.ret is the file before the last call.   *)
(***************************************************************************)
Before == first.ret

After(op) == pc = "called" /\ args.op = op

Repeated(op) == pc = "repeated" /\ args.op = op

\* the name of a record, trimmed and lowercased
NameIgnoringCase(b) == lower(strip(py_str(get(b.name, JStr(<<>>)))))

NoSharedName(data) ==
    \A i, j \in DOMAIN data : NameIgnoringCase(data[i]) = NameIgnoringCase(data[j]) => i = j

\* the digit string of a record's phone
PhoneDigits(b) == digits_of(py_str(get(b.phone, JStr(<<>>))))

\* the parts of C24 other than the repetition
KeyedByName ==
    /\ (\A i \in DOMAIN log : log[i] = "add_or_update_person") => NoSharedName(store)
    /\ After("add_or_update_person") =>
           LET key == lower(strip(args.name))
               known == \E i \in DOMAIN Before : NameIgnoringCase(Before[i]) = key
           IN  /\ Len(store) = Len(Before) + (IF known THEN 0 ELSE 1)
               /\ \E i \in DOMAIN store :
                      /\ NameIgnoringCase(store[i]) = key
                      /\ store[i].month = JInt(args.month)
                      /\ store[i].day = JInt(args.day)

\* C24: after calls of add_or_update_person only, no two records share a
\* name ignoring case; a call changes the number of records by 0 for a name
\* the file has and by 1 for a new one, and leaves a record of that name with
\* the month and day of the call; the same call made again leaves the file
\* unchanged.
C24_AddOrUpdateByName ==
    /\ KeyedByName
    /\ Repeated("add_or_update_person") => store = Before

SameButPhone(a, b) ==
    /\ a.name = b.name /\ a.month = b.month /\ a.day = b.day
    /\ a.relation = b.relation /\ a.note = b.note

NoEntryOf(digits, phones) == \A i \in DOMAIN phones : digits_of(phones[i].phone) # digits

\* C25 as stated: remove_phone_from_people empties the phone of every record
\* of the argument's non-empty digit string, keeps the number of records and
\* every name, month, day, relation and note, leaves every other record as
\* it was, and people_to_phone_list has no entry of that digit string.
C25_RemovePhoneFrame ==
    After("remove_phone_from_people") =>
        LET target == digits_of(args.phone)
        IN  /\ Len(store) = Len(Before)
            /\ \A i \in DOMAIN Before :
                   /\ SameButPhone(store[i], Before[i])
                   /\ IF target # <<>> /\ PhoneDigits(Before[i]) = target
                      THEN store[i].phone = JStr(<<>>)
                      ELSE store[i] = Before[i]
            /\ NoEntryOf(target, people_to_phone_list(store))

\* the phone as the file holds it after any call: a non-empty phone in its
\* normal form
Rewritten(phone) ==
    IF phone.kind = "str" /\ phone.s # <<>>
    THEN LET d == digits_of(phone.s)
         IN  JStr(IF Len(d) = 10
                  THEN SubSeq(d, 1, 3) \o <<"-">> \o SubSeq(d, 4, 6) \o <<"-">> \o SubSeq(d, 7, 10)
                  ELSE Trimmed(phone.s))
    ELSE phone

\* C25, amended: as stated, except that a record of another digit string
\* keeps its phone in normal form (ddd-ddd-dddd for ten digits, trimmed
\* otherwise) rather than as it was written.
C25_RemovePhoneFrameNormalized ==
    After("remove_phone_from_people") =>
        LET target == digits_of(args.phone)
        IN  /\ Len(store) = Len(Before)
            /\ \A i \in DOMAIN Before :
                   /\ SameButPhone(store[i], Before[i])
                   /\ IF target # <<>> /\ PhoneDigits(Before[i]) = target
                      THEN store[i].phone = JStr(<<>>)
                      ELSE store[i].phone = Rewritten(Before[i].phone)
            /\ NoEntryOf(target, people_to_phone_list(store))

\* both records of 508-555-1234 lose the phone, and the record of
\* "6175550000" now reads "617-555-0000"
C25_Witness ==
    /\ After("remove_phone_from_people")
    /\ Before = <<PeopleRecords[1], PeopleRecords[3], PeopleRecords[2]>>
    /\ store[1].phone = JStr(<<>>)
    /\ store[3].phone = JStr(<<>>)
    /\ store[2].phone = JStr(<<"6","1","7","-","5","5","5","-","0","0","0","0">>)

StubOf(phone, label) ==
    [name |-> JStr(IF Trimmed(label) # <<>> THEN Trimmed(label) ELSE Unknown),
     month |-> JInt(1), day |-> JInt(1), relation |-> JStr(<<>>), note |-> JStr(<<>>),
     phone |-> Rewritten(JStr(phone))]

\* what C26 says of one call, for the phones of the set Phones
StubRule(Phones) ==
    (After("add_phone_stub") /\ args.phone \in Phones) =>
        LET digits == digits_of(args.phone)
            known == {i \in DOMAIN Before : PhoneDigits(Before[i]) = digits}
        IN  IF known # {}
            THEN /\ Len(store) = Len(Before)
                 /\ LET i == FirstIndex(known)
                    IN  /\ store[i].phone = Rewritten(JStr(args.phone))
                        /\ store[i].name = (IF args.label # <<>> THEN JStr(Trimmed(args.label))
                                            ELSE Before[i].name)
            ELSE /\ Len(store) = Len(Before) + 1
                 /\ store[Len(store)] = StubOf(args.phone, args.label)
                 /\ ~NoEntryOf(digits, people_to_phone_list(store))

StubOnce(Phones) ==
    (Repeated("add_phone_stub") /\ args.phone \in Phones) => Len(store) = Len(Before)

WithDigit == {ph \in PhoneArgs : digits_of(ph) # <<>>}

Dict(events, births, text) == [events |-> events, births |-> births, text |-> text]

EmptyDict == Dict(JMissing, JMissing, JMissing)

\* the truth value of a dict: it has a key
dict_truthy(d) == d.events.kind # "missing" \/ d.births.kind # "missing" \/ d.text.kind # "missing"

JsonFile(obj) == [valid |-> TRUE, obj |-> obj]

BrokenFile == [valid |-> FALSE, obj |-> EmptyDict]

\* f"{prefix}_{month:02d}_{day:02d}"
cache_key(prefix, month, day) ==
    prefix \o <<"_">> \o two_digits(month) \o <<"_">> \o two_digits(day)

WikimediaPrefix == <<"w","i","k","i","m","e","d","i","a","_","o","n","t","h","i","s","d","a","y">>
NumbersapiPrefix == <<"n","u","m","b","e","r","s","a","p","i">>

\* None for a missing file and for a file that does not parse
cache_get(cache, key) ==
    IF key \in DOMAIN cache /\ cache[key].valid
    THEN [none |-> FALSE, obj |-> cache[key].obj]
    ELSE [none |-> TRUE, obj |-> EmptyDict]

cache_put(cache, key, obj) == (key :> JsonFile(obj)) @@ cache

Request(api, month, day) == [api |-> api, month |-> month, day |-> day]

\* variant: the fetched payload is returned without being written
wiki_on_this_day_unsaved(month, day, cache, fetched) ==
    LET key == cache_key(WikimediaPrefix, month, day)
        cached == cache_get(cache, key)
    IN  IF ~cached.none /\ dict_truthy(cached.obj)
        THEN [exc |-> FALSE, val |-> cached.obj, cache |-> cache, requests |-> <<>>]
        ELSE IF ~fetched.ok
        THEN [exc |-> TRUE, val |-> EmptyDict, cache |-> cache,
              requests |-> <<Request("wikimedia", month, day)>>]
        ELSE [exc |-> FALSE, val |-> fetched.obj, cache |-> cache,
              requests |-> <<Request("wikimedia", month, day)>>]

\* the payload, the cache afterwards and the network requests made
wiki_on_this_day(month, day, cache, fetched) ==
    LET key == cache_key(WikimediaPrefix, month, day)
        cached == cache_get(cache, key)
    IN  IF ~cached.none /\ dict_truthy(cached.obj)
        THEN [exc |-> FALSE, val |-> cached.obj, cache |-> cache, requests |-> <<>>]
        ELSE IF ~fetched.ok
        THEN [exc |-> TRUE, val |-> EmptyDict, cache |-> cache,
              requests |-> <<Request("wikimedia", month, day)>>]
        ELSE [exc |-> FALSE, val |-> fetched.obj, cache |-> cache_put(cache, key, fetched.obj),
              requests |-> <<Request("wikimedia", month, day)>>]

\* int(date.strftime("%j")) for the leap year 2000
DaysBefore == <<0, 31, 60, 91, 121, 152, 182, 213, 244, 274, 305, 335>>

day_of_year_of(month, day) == DaysBefore[month] + day

\* random.choice(options) with the module-level generator in state s
fallback_fun_fact(month, day, s) ==
    LET date_label == date_label_of(month, day)
        day_of_year == decimal(day_of_year_of(month, day))
        options ==
            << date_label \o <<" ","i","s"," ","d","a","y"," ","#">> \o day_of_year \o <<" ","o","f"," ","t","h","e"," ","y","e","a","r"," ","U+2014"," ","w","h","i","c","h"," ","m","e","a","n","s"," ","w","e","U+2019","r","e"," ">> \o day_of_year \o <<" ","d","a","y","s"," ","i","n","t","o"," ","t","h","i","s"," ","y","e","a","r","U+2019","s"," ","n","o","n","s","e","n","s","e"," ","(","a","n","d"," ","e","x","c","e","l","l","e","n","c","e",")",".">>,
               <<"O","n"," ">> \o date_label \o <<","," ","t","h","e"," ","c","a","l","e","n","d","a","r"," ","i","s"," ","b","a","s","i","c","a","l","l","y"," ","s","h","o","u","t","i","n","g"," ","U+201C","m","a","i","n"," ","c","h","a","r","a","c","t","e","r"," ","e","n","e","r","g","y","U+201D"," ","U+2014"," ","u","s","e"," ","i","t"," ","r","e","s","p","o","n","s","i","b","l","y",".">>,
               <<"F","u","n"," ","c","a","l","e","n","d","a","r"," ","m","a","g","i","c",":"," ">> \o date_label \o <<" ","h","a","p","p","e","n","s"," ","e","x","a","c","t","l","y"," ","o","n","c","e"," ","p","e","r"," ","y","e","a","r","."," ","S","t","a","t","i","s","t","i","c","a","l","l","y"," ","r","a","r","e","."," ","E","m","o","t","i","o","n","a","l","l","y"," ","e","l","i","t","e",".">>,
               <<"D","i","d"," ","y","o","u"," ","k","n","o","w","?"," ","T","h","e"," ","b","e","s","t"," ","b","i","r","t","h","d","a","y","s"," ","t","e","n","d"," ","t","o"," ","l","a","n","d"," ","o","n"," ","d","a","y","s"," ","t","h","a","t"," ","e","n","d"," ","i","n"," ","U+201C","t","o","d","a","y",".","U+201D"," ","S","c","i","e","n","c","e","-","i","s","h",".">> >>
    IN  choice(s, options)

\* the fun fact, the cache afterwards, the network requests made and the
\* draws taken from the module-level generator
numbersapi_fun_fact(month, day, cache, fetched, s) ==
    LET key == cache_key(NumbersapiPrefix, month, day)
        cached == cache_get(cache, key)
        request == <<Request("numbersapi", month, day)>>
        text == strip(py_str(get(fetched.obj.text, JStr(<<>>))))
    IN  IF /\ ~cached.none
           /\ dict_truthy(cached.obj)
           /\ cached.obj.text.kind = "str"
           /\ strip(cached.obj.text.s) # <<>>
        THEN [val |-> strip(cached.obj.text.s), cache |-> cache, requests |-> <<>>, draws |-> 0]
        ELSE IF ~fetched.ok
        THEN [val |-> fallback_fun_fact(month, day, s), cache |-> cache, requests |-> request,
              draws |-> 1]
        ELSE IF text # <<>>
        THEN [val |-> text, cache |-> cache_put(cache, key, fetched.obj), requests |-> request,
              draws |-> 0]
        ELSE [val |-> fallback_fun_fact(month, day, s),
              cache |-> cache_put(cache, key, fetched.obj), requests |-> request, draws |-> 1]

CakeIsOld == <<"C","a","k","e"," ","i","s"," ","o","l","d">>

\* what a request to Wikimedia may give: a failure, {}, two payloads
WikiOutcomes ==
    { [ok |-> FALSE, obj |-> EmptyDict],
      [ok |-> TRUE, obj |-> EmptyDict],
      [ok |-> TRUE, obj |-> Dict(JList(<<>>), JList(<<>>), JMissing)],
      [ok |-> TRUE, obj |-> Dict(JList(<<ItWon, ItAttack>>), JList(<<Births[1]>>), JMissing)] }

\* what a request to NumbersAPI may give: a failure, a fact, no text
NumbersOutcomes ==
    { [ok |-> FALSE, obj |-> EmptyDict],
      [ok |-> TRUE, obj |-> Dict(JMissing, JMissing, JStr(CakeIsOld))],
      [ok |-> TRUE, obj |-> Dict(JMissing, JMissing, JNull)] }

CacheDates == {<<5, 14>>, <<1, 2>>}

\* the cache directory at the start: empty, a file that is not JSON, a
\* payload cached earlier
InitialCaches ==
    { <<>>,
      cache_key(WikimediaPrefix, 5, 14) :> BrokenFile,
      cache_key(WikimediaPrefix, 1, 2) :> JsonFile(Dict(JList(<<ItNeutral>>), JList(<<>>), JMissing)) }

NoFetch == [api |-> "none", month |-> 0, day |-> 0, fetched |-> [ok |-> FALSE, obj |-> EmptyDict]]

InitCache ==
    /\ pc = "idle"
    /\ args = NoFetch
    /\ ret = <<>>
    /\ first = NoCall
    /\ ncalls = 0
    /\ globalDraws = 0
    /\ log = <<>>
    /\ store \in InitialCaches

\* log lists the calls with what they returned and whether they went to the
\* network; first keeps the cache as it was before the call
WikiOnThisDay ==
    \E date \in CacheDates, fetched \in WikiOutcomes :
        LET r == wiki_on_this_day(date[1], date[2], store, fetched)
        IN  /\ ncalls < MaxCalls + 1
            /\ pc' = IF r.exc THEN "raised" ELSE "returned"
            /\ args' = [api |-> "wikimedia", month |-> date[1], day |-> date[2], fetched |-> fetched]
            /\ ret' = r.val
            /\ first' = [NoCall EXCEPT !.set = TRUE, !.ret = store]
            /\ store' = r.cache
            /\ log' = Append(log, [api |-> "wikimedia", month |-> date[1], day |-> date[2],
                                   fetched |-> fetched, network |-> r.requests # <<>>,
                                   raised |-> r.exc, val |-> r.val])
            /\ ncalls' = ncalls + 1
            /\ UNCHANGED globalDraws

NumbersapiFunFact ==
    \E date \in CacheDates, fetched \in NumbersOutcomes :
        LET r == numbersapi_fun_fact(date[1], date[2], store, fetched, global_rng)
        IN  /\ ncalls < MaxCalls + 1
            /\ globalDraws + r.draws <= MaxGlobalDraws
            /\ pc' = "returned"
            /\ args' = [api |-> "numbersapi", month |-> date[1], day |-> date[2], fetched |-> fetched]
            /\ ret' = r.val
            /\ first' = [NoCall EXCEPT !.set = TRUE, !.ret = store]
            /\ store' = r.cache
            /\ log' = Append(log, [api |-> "numbersapi", month |-> date[1], day |-> date[2],
                                   fetched |-> fetched, network |-> r.requests # <<>>,
                                   raised |-> FALSE, val |-> Dict(JMissing, JMissing, JStr(r.val))])
            /\ globalDraws' = globalDraws + r.draws
            /\ ncalls' = ncalls + 1

NextCache == WikiOnThisDay \/ NumbersapiFunFact

SpecCache == InitCache /\ [][NextCache]_vars

(***************************************************************************)
(* Properties of the cache.                                                *)
(***************************************************************************)
IsWiki(c) == c.api = "wikimedia"

SameDate(a, b) == a.month = b.month /\ a.day = b.day

\* C30: once a call of wiki_on_this_day for a date has fetched a non-empty
\* payload, every later call for that date returns that payload without a
\* network request; a call whose fetch fails raises and leaves the cache as
\* it was.
C30_FetchedOncePerDate ==
    /\ \A i, j \in DOMAIN log :
           (/\ i < j /\ IsWiki(log[i]) /\ IsWiki(log[j]) /\ SameDate(log[i], log[j])
            /\ log[i].network /\ log[i].fetched.ok /\ dict_truthy(log[i].fetched.obj)) =>
               /\ ~log[j].network
               /\ ~log[j].raised
               /\ log[j].val = log[i].fetched.obj
    /\ \A i \in DOMAIN log :
           (IsWiki(log[i]) /\ log[i].network /\ ~log[i].fetched.ok) => log[i].raised
    /\ pc = "raised" => store = first.ret

\* a payload is fetched for 14 May, a fetch for 2 January fails, and the next
\* call for 14 May is served from the cache although the network is down
C30_Witness ==
    /\ Len(log) = 3
    /\ IsWiki(log[1]) /\ log[1].month = 5 /\ log[1].network /\ dict_truthy(log[1].val)
    /\ IsWiki(log[2]) /\ log[2].month = 1 /\ log[2].raised
    /\ IsWiki(log[3]) /\ log[3].month = 5 /\ ~log[3].network /\ ~log[3].fetched.ok
    /\ log[3].val = log[1].val

(***************************************************************************)
(* The web route: render_page for one request.  args holds the             *)
(* environment (APP_USER, APP_PASS), the request (Authorization header,    *)
(* show parameter, date), birthdays.json and the outcomes the two APIs     *)
(* would give; store is the cache directory; log lists the files read,     *)
(* the fetchers called and the network requests made.                      *)
(***************************************************************************)
\* variant: only show=1 counts
show_facts_of_one(show) == strip(show) = <<"1">>

\* show == "1" or show.lower() in {"true", "yes", "y"}, for the stripped parameter
show_facts_of(show) ==
    LET sh == strip(show)
    IN  sh = <<"1">> \/ lower(sh) \in {<<"t","r","u","e">>, <<"y","e","s">>, <<"y">>}

FactCards ==
    {"phone list card", "family birthdays card", "history card", "sports card", "rock card",
     "fun fact card", "births card"}

\* the parts of the page html_page returns
page_sections(show_facts) ==
    {"hero", "debug line", "calendar", "footer"}
    \cup (IF show_facts THEN FactCards \cup {"sms summary"} ELSE {"placeholder card"})

Response(status, challenge, text, page) ==
    [status |-> status, www_authenticate |-> challenge, text |-> text, page |-> page]

DefaultSportsKeywords == <<<<"r","e","d"," ","s","o","x">>, <<"b","o","s","t","o","n">>>>
DefaultRockKeywords == <<<<"r","o","c","k">>>>

\* the response, the cache afterwards, what was read, called and requested,
\* and the draws taken from the module-level generator.  birthdays is what
\* load_birthdays returns; wiki and numbers are what wiki_on_this_day and
\* numbersapi_fun_fact do when they are called, numbers after wiki.
render_page(env, request, birthdays, cache, wiki, numbers) ==
    LET auth_resp == basic_auth_required(env.APP_USER, env.APP_PASS, request.authorization)
        show_facts == show_facts_of(request.show)
        month == request.date[1]
        day == request.date[2]
        birthday_hits == birthdays_for_date(birthdays, month, day)
        seed == page_seed(month, day)
        onthisday == IF show_facts /\ ~wiki.exc THEN wiki.val
                     ELSE Dict(JList(<<>>), JList(<<>>), JMissing)
        fun_fact == IF show_facts THEN numbers.val ELSE <<>>
    IN  IF ~auth_resp.none
        THEN [response |-> Response(auth_resp.status, auth_resp.www_authenticate,
                                    auth_resp.body, <<>>),
              cache |-> cache, log |-> <<>>, draws |-> 0]
        ELSE [response |->
                  Response(200, FALSE, "",
                           <<[sections |-> page_sections(show_facts),
                              show_facts |-> show_facts,
                              debug_error |-> show_facts /\ wiki.exc,
                              phones |-> people_to_phone_list(birthdays),
                              bday_index |-> build_birthday_index(birthdays),
                              data |-> html_page_data(month, day, onthisday, fun_fact,
                                                      birthday_hits, DefaultSportsKeywords,
                                                      DefaultRockKeywords, seed, show_facts)]>>),
              cache |-> IF show_facts THEN numbers.cache ELSE cache,
              log |-> <<Request("birthdays.json", 0, 0)>>
                      \o (IF show_facts
                          THEN <<Request("wiki_on_this_day", month, day)>> \o wiki.requests
                               \o <<Request("numbersapi_fun_fact", month, day)>>
                               \o numbers.requests
                          ELSE <<>>),
              draws |-> IF show_facts THEN numbers.draws ELSE 0]

\* Authorization headers: none; u:p; u:p:q; u:p with a character outside the
\* alphabet; the scheme in lower case; another scheme; a sextet missing;
\* no colon; a wrong password; a wrong user
Headers ==
    { <<>>, <<"B","a","s","i","c"," ","d","T","p","w">>, <<"B","a","s","i","c"," ","d","T","p","w","O","n","E","=">>, <<"B","a","s","i","c"," ","d","T","!","p","w">>, <<"b","a","s","i","c"," ","d","T","p","w">>, <<"B","e","a","r","e","r"," ","d","T","p","w">>, <<"B","a","s","i","c"," ","d","T","p">>, <<"B","a","s","i","c"," ","d","Q","=","=">>, <<"B","a","s","i","c"," ","d","T","p","4">>, <<"B","a","s","i","c"," ","e","D","p","w">> }

Shows == { <<>>, <<"1">>, <<" ", "1", " ">>, <<"0">>, <<"2">>, <<"t","r","u","e">>, <<"Y","E","S">>, <<"y">> }

InitRequest ==
    /\ pc = "idle"
    /\ args \in [APP_USER : {<<>>, <<"u">>},
                 APP_PASS : {<<>>, <<"p">>, <<"p", ":", "q">>},
                 authorization : Headers,
                 show : Shows,
                 date : {<<5, 14>>},
                 birthdays : {<<PZoeAdams, PeopleRecords[3]>>},
                 wiki : {o \in WikiOutcomes : ~o.ok \/ o.obj.events.kind = "list"},
                 numbers : {o \in NumbersOutcomes : o.obj.text.kind # "null"}]
    /\ ret = <<>>
    /\ first = NoCall
    /\ ncalls = 0
    /\ globalDraws = 0
    /\ log = <<>>
    /\ store = <<>>

RenderPage ==
    /\ pc = "idle"
    /\ pc' = "responded"
    /\ \E birthdays \in {load_birthdays(args.birthdays)},
          wiki \in {wiki_on_this_day(args.date[1], args.date[2], store, args.wiki)} :
          \E numbers \in {numbersapi_fun_fact(args.date[1], args.date[2], wiki.cache,
                                              args.numbers, global_rng)} :
              \E r \in {render_page([APP_USER |-> args.APP_USER, APP_PASS |-> args.APP_PASS],
                                    [authorization |-> args.authorization, show |-> args.show,
                                     date |-> args.date],
                                    birthdays, store, wiki, numbers)} :
                  /\ ret' = r.response
                  /\ store' = r.cache
                  /\ log' = r.log
                  /\ globalDraws' = globalDraws + r.draws
    /\ ncalls' = ncalls + 1
    /\ UNCHANGED <<args, first>>

SpecRequest == InitRequest /\ [][RenderPage]_vars

(***************************************************************************)
(* Properties of the route.                                                *)
(***************************************************************************)
Responded == pc = "responded"

CredentialsSet == args.APP_USER # <<>> /\ args.APP_PASS # <<>>

Credentials == args.APP_USER \o <<":">> \o args.APP_PASS

\* the header is "Basic " and the base64 encoding of user:pass
CanonicalHeader == args.authorization = BasicPrefix \o b64encode(Credentials)

\* the header starts with "Basic " and the rest is decoded to user:pass
DecodesToCredentials ==
    /\ StartsWith(args.authorization, BasicPrefix)
    /\ LET raw == b64decode(SubSeq(args.authorization, Len(BasicPrefix) + 1,
                                   Len(args.authorization)))
       IN  /\ ~raw.exc
           /\ ~utf8_decode(raw.val).exc
           /\ utf8_decode(raw.val).val = Credentials

\* nothing was read, fetched or rendered, and the response is the refusal
Refused ==
    /\ log = <<>>
    /\ store = <<>>
    /\ ret.page = <<>>
    /\ IF CredentialsSet THEN ret.status = 401 /\ ret.www_authenticate ELSE ret.status = 500

Served == ret.status = 200 /\ ret.page # <<>> /\ log # <<>>

\* C22 as stated: a request is served only when APP_USER and APP_PASS are
\* set and the header is "Basic " followed by the base64 encoding of
\* APP_USER:APP_PASS; every other request is refused with 401 and
\* WWW-Authenticate, or 500 when a credential is unset, before anything is
\* read, fetched or rendered.
C22_BasicAuthGate ==
    Responded =>
        IF CredentialsSet /\ CanonicalHeader THEN Served ELSE Refused

\* C22, amended: the same with "the text after 'Basic ' is decoded by the
\* lenient base64.b64decode to APP_USER:APP_PASS" for the header.
C22_BasicAuthGateLenient ==
    Responded =>
        IF CredentialsSet /\ DecodesToCredentials THEN Served ELSE Refused

\* the password p:q is everything after the first colon of u:p:q
C22_Witness ==
    /\ Responded
    /\ args.APP_USER = <<"u">>
    /\ args.APP_PASS = <<"p", ":", "q">>
    /\ CanonicalHeader
    /\ args.authorization = <<"B","a","s","i","c"," ","d","T","p","w","O","n","E","=">>
    /\ Served

ApiCalls == {i \in DOMAIN log : log[i].api # "birthdays.json"}

FactsRendered == ret.page[1].sections \cap (FactCards \cup {"sms summary"}) # {}

ShowRequested ==
    LET sh == Trimmed(args.show)
    IN  sh \in {<<"1">>, <<"y">>, <<"Y">>}
        \/ (Len(sh) = 3 /\ sh[1] \in {"y", "Y"} /\ sh[2] \in {"e", "E"} /\ sh[3] \in {"s", "S"})
        \/ (Len(sh) = 4 /\ sh[1] \in {"t", "T"} /\ sh[2] \in {"r", "R"} /\ sh[3] \in {"u", "U"}
            /\ sh[4] \in {"e", "E"})

====
